---- MODULE Spec2Model ----
(***************************************************************************)
(* A model of the rune agent harness (src/rune/harness): the Session       *)
(* history model and its save/load, the permission engine, the MCP stdio   *)
(* client (_send, the server lifecycle, the manager, the correlation       *)
(* table), the agent loop and its tool dispatcher, sub-agent spawning and  *)
(* usage accounting, and the AGENTS.md project-docs reader.                *)
(*                                                                         *)
(* Python's Optional values are modelled as sequences of length at most    *)
(* one: None is <<>> and a present value x is <<x>>, so that None, "" and  *)
(* [] stay distinguishable exactly as they are in the source.              *)
(***************************************************************************)
EXTENDS Integers, Sequences, FiniteSets, TLC

VARIABLES
    \* ---- Session (src/rune/harness/session.py) ----
    system_prompt,      \* Session.system_prompt
    messages,           \* Session.messages
    turn_count,         \* Session.turn_count
    session_id,         \* Session.session_id
    child_session_ids,  \* Session.child_session_ids
    children,           \* the Session objects returned by fork(), in order
    nAdds,              \* history: add_* calls made on the session so far
    rebuilt,            \* history: compact() or clear() has rebuilt the list
    nCompacts,          \* history: number of compact() calls so far
    lastOp,             \* history: the last Session operation and its argument
    extra,              \* operations made since the initial state (bounded)
    \* ---- Session.save / Session.load (src/rune/harness/session.py) ----
    parent_session_id,  \* Session.parent_session_id
    session_usage,      \* Session.usage
    file,               \* None, or the data the last save() wrote
    origin,             \* history: the Session as it was at the last save()
    loaded,             \* None, or the Session load() returned
    \* ---- Permission engine (src/rune/harness/permissions.py) ----
    permHeap,           \* the ToolPermission objects, by identity
    base,               \* a PermissionSet
    override,           \* a PermissionSet
    merged,             \* None, or the PermissionSet base.merge(override) returned
    permLast,           \* history: the last permission operation and its arguments
    permOps,            \* set_permission calls made so far (bounded)
    \* ---- MCPServer._send / _read_stdout (src/rune/harness/mcp_client.py) ----
    now,                \* time.time(), in ticks of 25 ms
    sendPc,             \* where the caller thread is inside _send
    req_id,             \* _send: req_id of the request in progress (0: none)
    issued,             \* number of requests _send has written so far
    deadline,           \* _send: deadline
    stdin,              \* the requests written to process.stdin, in order
    response_buf,       \* MCPServer._response_buf
    sendResult,         \* how the last _send ended: a response or TimeoutError
    stored,             \* history: ids the reader thread has stored so far
    inTime,             \* history: ids of requests answered before their deadline
    \* ---- Agent._execute_tool (src/rune/harness/agent.py) ----
    agent_name,         \* Agent.agent_def.name: the active agent definition
    auto_approve_tools, \* AgentConfig.auto_approve_tools
    has_callback,       \* Agent.approval_callback is not None
    mcp_tools,          \* the tool names in MCPManager._tool_map
    events,             \* history: approval / mcp / builtin calls made so far
    lastCall,           \* history: the last tool call handed to _execute_tool
    toolResult,         \* the ToolResult the last _execute_tool returned
    dispatched,         \* _execute_tool calls made so far (bounded)
    \* ---- Agent._spawn_subagent (src/rune/harness/agent.py) ----
    is_subagent,        \* Agent._is_subagent of the Agent whose loop is running
    parents,            \* the Agents waiting inside _spawn_subagent, outermost first
    mcp_servers,        \* the servers configured at config.mcp_config_path
    agents,             \* the number of Agents constructed so far
    server_procs,       \* the server processes running, each with its Agent
    leftover,           \* history: the processes running when shutdown() returned
    \* ---- MCPServer.call_tool (src/rune/harness/mcp_client.py) ----
    sendOutcome,        \* what _send("tools/call") does: a response or an exception
    callResult,         \* None, or the ToolResult call_tool returned
    \* ---- usage accounting (session.py UsageStats, agent.py _spawn_subagent) ----
    usage,              \* the parent Session's usage
    child_usage,        \* None, or the usage of the running sub-agent's session
    usageLast,          \* history: the last usage operation and what it read
    usageOps,           \* usage operations made so far (bounded)
    \* ---- Agent.stream / Agent.run (src/rune/harness/agent.py) ----
    agentMessages,      \* Agent.session.messages
    max_turns,          \* Agent.agent_def.max_turns
    loopPc,             \* where stream() is: idle, test, call, create, tools, exec, done
    stream_turn,        \* stream: the local turn_count
    message,            \* stream: response.choices[0].message of this turn
    pending,            \* stream: the tool calls of this turn not yet executed
    nextId,             \* the number of the next tool-call id the backend makes
    lastYield,          \* run: result, the last TurnResult stream yielded
    streamReturn,       \* None, or the value stream() returned
    runResult,          \* None, or the value run() returned
    endedBy,            \* history: how the loop ended: finished, exhausted, raised
    mainCalls,          \* history: main backend calls of this submission
    started,            \* history: ids of this turn's tool calls, as _execute_tool began
    summaryCall,        \* history: the summarization call of this turn: none, returned, raised
    \* ---- MCPServer / MCPManager lifecycle (src/rune/harness/mcp_client.py) ----
    proc,               \* per server: MCPServer.process: none, running, killed, exited
    server_tools,       \* per server: MCPServer.tools, as tool names
    tool_map,           \* MCPManager._tool_map
    mgrPc,              \* the manager: new, start_all, ready, shutdown_all, stopped, raised
    mgrIdx,             \* start_all / shutdown_all: the server the loop is at
    sent,               \* history, per server: the messages written to its stdin
    signals,            \* history, per server: terminate / kill signals sent
    mcpLast,            \* history: the last lifecycle call and how it ended
    failedStart,        \* history: the servers that raised inside start_all
    offered,            \* history, per server: the tools it took from tools/list
    handshake,          \* history: the server started last and how its initialize
                        \* request ended
    attempted,          \* history: the servers shutdown_all called shutdown() on
    callStates,         \* history: the process states call_tool was called in
    mcpOps,             \* direct start / call_tool / shutdown calls made so far (bounded)
    \* ---- a sub-task inside the task tool call (src/rune/harness/agent.py) ----
    sessionHeap,        \* the Session objects, by identity; the parent's is the first
    childRef,           \* child_agent.session, as an identity; 0: no child Agent yet
    nestPc,             \* where the parent's loop and the nested run are
    forkSnap,           \* history: None, or the parent's Session as it was at the fork
    taskOutcome,        \* None, or how child_agent.run ended
    childTurns,         \* turn_count of the child's stream
    nestOps,            \* model calls the parent loop has made so far (bounded)
    \* ---- _response_buf under two threads (src/rune/harness/mcp_client.py) ----
    response_table,     \* the keys of MCPServer._response_buf
    interp,             \* the thread inside a dict operation of the interpreter, or none
    inTable,            \* history: the threads inside an operation on the table
    tPc,                \* per thread: where it is
    tReq,               \* _send: req_id, as a number
    rId,                \* _read_stdout: msg_id of the line being handled
    tStores,            \* stores the reader thread has made so far (bounded)
    \* ---- _read_stdout (src/rune/harness/mcp_client.py) ----
    stdout_lines,       \* the lines the server writes to its stdout, in order
    lineIdx,            \* the position of the for loop in them
    readerPc,           \* the reader thread: reading, eof, or dead by an exception
    reader_buf,         \* the keys of _response_buf
    \* ---- read_project_docs (src/rune/harness/agents_md.py) ----
    doc_files,          \* the discovered files, root first: readable or not, and their bytes
    max_bytes,          \* read_project_docs: max_bytes
    docPc,              \* where read_project_docs is: start, loop, join, done
    docIdx,             \* the position of the loop in paths
    remaining,          \* read_project_docs: remaining
    parts,              \* read_project_docs: parts
    taken,              \* history, per file: the raw bytes of it that went into parts
    docReads,           \* history: the files read, and `remaining` at each read
    docResult           \* None, or the value read_project_docs returned

sessVars == <<system_prompt, messages, turn_count, session_id,
              child_session_ids, children, nAdds, rebuilt, nCompacts,
              lastOp, extra>>

storeVars == <<parent_session_id, session_usage, file, origin, loaded>>

permVars == <<permHeap, base, override, merged, permLast, permOps>>

sendVars == <<now, sendPc, req_id, issued, deadline, stdin, response_buf,
              sendResult, stored, inTime>>

toolVars == <<agent_name, auto_approve_tools, has_callback, mcp_tools, events,
              lastCall, toolResult, dispatched>>

spawnVars == <<is_subagent, parents, mcp_servers, agents, server_procs,
               leftover>>

callVars == <<sendOutcome, callResult>>

usageVars == <<usage, child_usage, usageLast, usageOps>>

loopVars == <<agentMessages, max_turns, loopPc, stream_turn, message, pending,
              nextId, lastYield, streamReturn, runResult, endedBy, mainCalls,
              started, summaryCall>>

mcpVars == <<proc, server_tools, tool_map, mgrPc, mgrIdx, sent, signals,
             mcpLast, failedStart, offered, handshake, attempted, callStates,
             mcpOps>>

nestVars == <<sessionHeap, childRef, nestPc, forkSnap, taskOutcome,
              childTurns, nestOps>>

tableVars == <<response_table, interp, inTable, tPc, tReq, rId, tStores>>

readerVars == <<stdout_lines, lineIdx, readerPc, reader_buf>>

docsVars == <<doc_files, max_bytes, docPc, docIdx, remaining, parts, taken,
              docReads, docResult>>

vars == <<sessVars, storeVars, permVars, sendVars, toolVars, spawnVars,
         callVars, usageVars, loopVars, mcpVars, nestVars, tableVars,
         readerVars, docsVars>>

----------------------------------------------------------------------------
\* Optional values

None == <<>>
Some(x) == <<x>>
IsNone(o) == o = <<>>
\* Python truthiness of an Optional[str] and of an Optional[list]
TruthyStr(o) == o # <<>> /\ o[1] # ""
TruthyList(o) == o # <<>> /\ o[1] # <<>>

\* The exception classes that can come up, and the ones "except Exception"
\* catches: every one of them derives from Exception
ExceptionClasses ==
    {"AssertionError", "TimeoutError", "BrokenPipeError", "OSError",
     "FileNotFoundError", "AttributeError", "KeyError"}

\* "except Exception" catches exc
Caught(exc) == exc \in ExceptionClasses

\* str(e) of the exceptions
ExcText(exc) ==
    CASE exc = "AssertionError"    -> ""
      [] exc = "TimeoutError"      -> "MCP server did not respond"
      [] exc = "BrokenPipeError"   -> "[Errno 32] Broken pipe"
      [] exc = "OSError"           -> "[Errno 22] Invalid argument"
      [] exc = "FileNotFoundError" -> "[Errno 2] No such file or directory"
      [] exc = "AttributeError"    -> "'str' object has no attribute 'get'"
      [] OTHER                     -> "'name'"

Raise(exc) == [kind |-> "raise", exc |-> exc, text |-> ExcText(exc)]

----------------------------------------------------------------------------
\* Bounds of the exploration

MaxExtra == 3        \* operations explored after the initial state
MaxPrebuilt == 12    \* longest history drawn in the initial state

\* Session.compact keeps messages[-10:]
KeepRecent == 10

SessionIds == {"s1", "s2"}
SystemPrompts == {"", "SYS"}
Summaries == {"S", "T"}

----------------------------------------------------------------------------
\* Message (session.py: dataclass Message)

Message(role, content, tool_calls, tool_call_id, name) ==
    [role |-> role, content |-> content, tool_calls |-> tool_calls,
     tool_call_id |-> tool_call_id, name |-> name]

ToolCall(id, fname, args) ==
    [id |-> id, type |-> "function",
     function |-> [name |-> fname, arguments |-> args]]

SystemMessage(text) == Message("system", Some(text), None, None, None)
UserMessage(text) == Message("user", Some(text), None, None, None)
AssistantMessage(content, tool_calls) ==
    Message("assistant", content, tool_calls, None, None)
ToolMessage(id, name, result) ==
    Message("tool", Some(result), None, Some(id), Some(name))

\* A __post_init__ that forgets the test for an empty prompt
PostInit_NoEmptyTest(prompt, msgs) ==
    IF msgs = <<>> THEN <<SystemMessage(prompt)>> ELSE msgs

\* Session.__post_init__: the system prompt becomes messages[0] when it is
\* non-empty and no message list was passed.
PostInit(prompt, msgs) ==
    IF prompt # "" /\ msgs = <<>> THEN <<SystemMessage(prompt)>> ELSE msgs

\* A fresh Session(working_dir, system_prompt, parent_session_id)
NewSession(prompt, id, parent) ==
    [system_prompt |-> prompt,
     messages |-> PostInit(prompt, <<>>),
     turn_count |-> 0,
     session_id |-> id,
     parent_session_id |-> parent,
     child_session_ids |-> <<>>]

\* Session.add_user_message / add_assistant_message / add_tool_result
add_user_message(msgs, content) == Append(msgs, UserMessage(content))
add_assistant_message(msgs, content, tool_calls) ==
    Append(msgs, AssistantMessage(content, tool_calls))
add_tool_result(msgs, tool_call_id, name, result) ==
    Append(msgs, ToolMessage(tool_call_id, name, result))

\* The synthetic message Session.compact builds around the summary
CompactionMessage(summary) ==
    SystemMessage("[CONVERSATION SUMMARY]\n" \o summary \o "\n[END SUMMARY]")

\* messages[-k:]
LastK(msgs, k) ==
    IF Len(msgs) <= k THEN msgs ELSE SubSeq(msgs, Len(msgs) - k + 1, Len(msgs))

\* The leading system message that compact() and clear() retain
LeadingSystem(msgs) ==
    IF msgs # <<>> /\ msgs[1].role = "system" THEN <<msgs[1]>> ELSE <<>>

\* A compact() whose tail slice is one message too long
compact_OffByOne(msgs, summary) ==
    LET system_msg == LeadingSystem(msgs)
        recent == IF Len(msgs) > KeepRecent THEN LastK(msgs, KeepRecent + 1) ELSE <<>>
    IN  system_msg \o <<CompactionMessage(summary)>> \o recent

\* Session.compact: the rebuilt message list
compact(msgs, summary) ==
    LET system_msg == LeadingSystem(msgs)
        recent == IF Len(msgs) > KeepRecent THEN LastK(msgs, KeepRecent) ELSE <<>>
    IN  system_msg \o <<CompactionMessage(summary)>> \o recent

\* A needs_compaction that lets the list grow by another tail first
needs_compaction_Late(msgs, max_messages) == Len(msgs) > max_messages + KeepRecent

\* Session.needs_compaction
needs_compaction(msgs, max_messages) == Len(msgs) > max_messages

\* Session.clear: the rebuilt message list
clear(msgs) == LeadingSystem(msgs)

\* A fork() that hands the parent's history to the child
fork_CopyHistory(prompt, id) ==
    [NewSession(IF TruthyStr(prompt) THEN prompt[1] ELSE system_prompt, id,
                Some(session_id)) EXCEPT !.messages = messages]

\* Session.fork: the child session
fork(prompt, id) ==
    NewSession(IF TruthyStr(prompt) THEN prompt[1] ELSE system_prompt, id,
               Some(session_id))

----------------------------------------------------------------------------
\* Session: initial states and operations

\* The i-th message of a history drawn in the initial state: the sessions
\* the agent loop builds are user / assistant-with-tool-call / tool-result
\* rounds, each message with its own text.
PatternMessage(i) ==
    CASE i % 3 = 1 -> UserMessage("u" \o ToString(i))
      [] i % 3 = 2 -> AssistantMessage(None,
                          Some(<<ToolCall("c" \o ToString(i), "shell", "{}")>>))
      [] OTHER     -> ToolMessage("c" \o ToString(i - 1), "shell",
                                  "r" \o ToString(i))

RECURSIVE History(_)
History(n) == IF n = 0 THEN <<>> ELSE Append(History(n - 1), PatternMessage(n))

\* Histories drawn in the initial state: none, and those around the
\* KeepRecent boundary of compact().
PrebuiltSizes == {0} \cup ((KeepRecent - 1) .. MaxPrebuilt)

UserContents == {"a"}
AssistantInputs ==
    { <<Some("b"), None>>, <<None, Some(<<ToolCall("c0", "shell", "{}")>>)>> }
ForkPrompts == {None, Some(""), Some("SUB")}

Op(name, arg) == [op |-> name, arg |-> arg]

SessionInit ==
    \E p \in SystemPrompts, id \in SessionIds, n \in PrebuiltSizes :
        /\ system_prompt = p
        /\ messages = PostInit(p, <<>>) \o History(n)
        /\ turn_count = (n + 2) \div 3
        /\ session_id = id
        /\ child_session_ids = <<>>
        /\ children = <<>>
        /\ nAdds = n
        /\ rebuilt = FALSE
        /\ nCompacts = 0
        /\ lastOp = Op("init", "")
        /\ extra = 0

AddUserMessage(content) ==
    /\ extra < MaxExtra
    /\ messages' = add_user_message(messages, content)
    /\ turn_count' = turn_count + 1
    /\ nAdds' = nAdds + 1
    /\ lastOp' = Op("add_user_message", "")
    /\ extra' = extra + 1
    /\ UNCHANGED <<system_prompt, session_id, child_session_ids, children,
                   rebuilt, nCompacts>>

AddAssistantMessage(content, tool_calls) ==
    /\ extra < MaxExtra
    /\ messages' = add_assistant_message(messages, content, tool_calls)
    /\ nAdds' = nAdds + 1
    /\ lastOp' = Op("add_assistant_message", "")
    /\ extra' = extra + 1
    /\ UNCHANGED <<system_prompt, turn_count, session_id, child_session_ids,
                   children, rebuilt, nCompacts>>

AddToolResult(tool_call_id, name, result) ==
    /\ extra < MaxExtra
    /\ messages' = add_tool_result(messages, tool_call_id, name, result)
    /\ nAdds' = nAdds + 1
    /\ lastOp' = Op("add_tool_result", "")
    /\ extra' = extra + 1
    /\ UNCHANGED <<system_prompt, turn_count, session_id, child_session_ids,
                   children, rebuilt, nCompacts>>

Fork(prompt, id) ==
    /\ extra < MaxExtra
    /\ LET child == fork(prompt, id) IN
        /\ children' = Append(children, child)
        /\ child_session_ids' = Append(child_session_ids, child.session_id)
    /\ lastOp' = Op("fork", "")
    /\ extra' = extra + 1
    /\ UNCHANGED <<system_prompt, messages, turn_count, session_id, nAdds,
                   rebuilt, nCompacts>>

Compact(summary) ==
    /\ extra < MaxExtra
    /\ messages' = compact(messages, summary)
    /\ rebuilt' = TRUE
    /\ nCompacts' = nCompacts + 1
    /\ lastOp' = Op("compact", summary)
    /\ extra' = extra + 1
    /\ UNCHANGED <<system_prompt, turn_count, session_id, child_session_ids,
                   children, nAdds>>

Clear ==
    /\ extra < MaxExtra
    /\ messages' = clear(messages)
    /\ turn_count' = 0
    /\ rebuilt' = TRUE
    /\ lastOp' = Op("clear", "")
    /\ extra' = extra + 1
    /\ UNCHANGED <<system_prompt, session_id, child_session_ids, children,
                   nAdds, nCompacts>>

SessionNext ==
    \/ \E c \in UserContents : AddUserMessage(c)
    \/ \E a \in AssistantInputs : AddAssistantMessage(a[1], a[2])
    \/ AddToolResult("c0", "shell", "out")
    \/ \E p \in ForkPrompts, id \in SessionIds : Fork(p, id)
    \/ \E s \in Summaries : Compact(s)
    \/ Clear


----------------------------------------------------------------------------
\* Session properties

SystemCount == IF system_prompt # "" THEN 1 ELSE 0

\* C1: as long as only add_user_message / add_assistant_message /
\* add_tool_result (and operations that do not touch the list) have been
\* called, len(messages) is the number of add calls, plus one when a
\* non-empty system prompt was given at construction.
C1_LengthCountsAddCalls ==
    ~rebuilt => Len(messages) = nAdds + SystemCount

\* three add calls, one of each kind, on a freshly built session with a prompt
C1_Witness ==
    /\ ~rebuilt /\ system_prompt # "" /\ nAdds = 3 /\ extra = 3
    /\ {messages[i].role : i \in 1..Len(messages)}
           = {"system", "user", "assistant", "tool"}

\* C2: every fork() leaves the parent's message list as it was, appends
\* exactly the child's id to child_session_ids, gives the child the
\* parent's session_id as parent_session_id, and the child starts with at
\* most its own system message.
C2_ForkFrame ==
    [][lastOp'.op = "fork" =>
        /\ messages' = messages
        /\ Len(children') = Len(children) + 1
        /\ LET child == children'[Len(children')] IN
            /\ child_session_ids' = Append(child_session_ids, child.session_id)
            /\ child.parent_session_id = Some(session_id)
            /\ Len(child.messages) <= 1
            /\ \A i \in 1..Len(child.messages) :
                   child.messages[i] = SystemMessage(child.system_prompt)
      ]_vars

\* two forks of a parent that holds a conversation
C2_Witness ==
    /\ lastOp.op = "fork" /\ Len(children) = 2 /\ Len(child_session_ids) = 2
    /\ Len(messages) > KeepRecent

\* C3: right after compact(summary) the session holds at most
\* 1 system + 1 summary + 10 tail messages, whatever its size before,
\* also when it had been compacted before.
C3_CompactBound ==
    lastOp.op = "compact" => Len(messages) <= 1 + 1 + KeepRecent

\* a second compaction of a session that was longer than the bound
C3_Witness ==
    /\ lastOp.op = "compact" /\ nCompacts = 2 /\ nAdds > KeepRecent + 2
    /\ Len(messages) = KeepRecent + 2

\* what C4 says compact() builds: the leading system message, the summary
\* message, then the last 10 of the messages after the leading system
\* message (all of them when there are fewer than 10)
ClaimedCompact(msgs, summary) ==
    LET system_msg == LeadingSystem(msgs)
        rest == IF system_msg # <<>> THEN Tail(msgs) ELSE msgs
    IN  system_msg \o <<CompactionMessage(summary)>> \o LastK(rest, KeepRecent)

\* C4: for a session of any size compact(summary) rebuilds the list as
\* [original system message if any] + [summary message] + [the last 10
\* messages before compaction, all non-system messages when fewer], in order.
C4_CompactKeepsLastTen ==
    [][lastOp'.op = "compact" =>
          messages' = ClaimedCompact(messages, lastOp'.arg)]_vars

\* C33: whenever the message list of a Session is not empty, its first
\* message has role system, whatever system prompt (the empty one included)
\* the Session was constructed with and whatever operations were called.
C33_FirstMessageIsSystem ==
    messages # <<>> => messages[1].role = "system"

----------------------------------------------------------------------------
\* Permission engine (permissions.py)

MaxSets == 3         \* set_permission calls explored

Levels == {"allow", "ask", "deny"}
ToolNames == {"shell", "read_file"}
PolicyNames == {"base", "override", "merged"}

\* ToolPermission(tool_name, level)
ToolPermission(tool_name, level) == [tool_name |-> tool_name, level |-> level]

\* PermissionSet(name, default_level); tool_permissions maps a tool name to
\* the identity of a ToolPermission object held in permHeap
PermissionSet(name, default_level, tool_permissions) ==
    [name |-> name, default_level |-> default_level,
     tool_permissions |-> tool_permissions]

EmptyDict == [t \in {} |-> <<>>]

\* PermissionSet.get_permission
get_permission(heap, ps, tool_name) ==
    IF tool_name \in DOMAIN ps.tool_permissions
    THEN heap[ps.tool_permissions[tool_name]].level
    ELSE ps.default_level

is_allowed(heap, ps, tool_name) == get_permission(heap, ps, tool_name) = "allow"
is_denied(heap, ps, tool_name) == get_permission(heap, ps, tool_name) = "deny"
needs_approval(heap, ps, tool_name) == get_permission(heap, ps, tool_name) = "ask"

\* A set_permission that only inserts and never updates an existing rule
set_permission_InsertOnly(heap, ps, ref, tool_name, level) ==
    IF tool_name \in DOMAIN ps.tool_permissions
    THEN [heap |-> heap, ps |-> ps]
    ELSE [heap |-> heap @@ (ref :> ToolPermission(tool_name, level)),
          ps |-> [ps EXCEPT !.tool_permissions = @ @@ (tool_name :> ref)]]

\* PermissionSet.set_permission: an existing ToolPermission object is
\* updated in place, otherwise a new object (identity ref) is stored
set_permission(heap, ps, ref, tool_name, level) ==
    IF tool_name \in DOMAIN ps.tool_permissions
    THEN [heap |-> [heap EXCEPT ![ps.tool_permissions[tool_name]].level = level],
          ps |-> ps]
    ELSE [heap |-> heap @@ (ref :> ToolPermission(tool_name, level)),
          ps |-> [ps EXCEPT !.tool_permissions = @ @@ (tool_name :> ref)]]

\* {**a, **b}
DictMerge(a, b) ==
    [t \in (DOMAIN a) \cup (DOMAIN b) |-> IF t \in DOMAIN b THEN b[t] ELSE a[t]]

\* A merge that lets the receiver's rules win
merge_BaseWins(self, other) ==
    PermissionSet(self.name \o "+" \o other.name, other.default_level,
                  DictMerge(other.tool_permissions, self.tool_permissions))

\* PermissionSet.merge
merge(self, other) ==
    PermissionSet(self.name \o "+" \o other.name, other.default_level,
                  DictMerge(self.tool_permissions, other.tool_permissions))

PermOp(name, who, tool, level) ==
    [op |-> name, who |-> who, tool |-> tool, level |-> level]

PermInit ==
    \E db \in Levels, do \in Levels :
        /\ permHeap = EmptyDict
        /\ base = PermissionSet("base", db, EmptyDict)
        /\ override = PermissionSet("override", do, EmptyDict)
        /\ merged = None
        /\ permLast = PermOp("init", "", "", "")
        /\ permOps = 0

\* the PermissionSet a name stands for
PolicyOf(who) ==
    CASE who = "base" -> base
      [] who = "override" -> override
      [] OTHER -> merged[1]

SetPermission(who, tool_name, level) ==
    /\ permOps < MaxSets
    /\ who = "merged" => merged # None
    /\ LET r == set_permission(permHeap, PolicyOf(who), <<who, tool_name>>,
                               tool_name, level) IN
        /\ permHeap' = r.heap
        /\ base' = IF who = "base" THEN r.ps ELSE base
        /\ override' = IF who = "override" THEN r.ps ELSE override
        /\ merged' = IF who = "merged" THEN Some(r.ps) ELSE merged
    /\ permLast' = PermOp("set_permission", who, tool_name, level)
    /\ permOps' = permOps + 1

Merge ==
    /\ merged = None
    /\ merged' = Some(merge(base, override))
    /\ permLast' = PermOp("merge", "", "", "")
    /\ UNCHANGED <<permHeap, base, override, permOps>>

PermNext ==
    \/ \E who \in PolicyNames, t \in ToolNames, l \in Levels :
           SetPermission(who, t, l)
    \/ Merge

----------------------------------------------------------------------------
\* Permission properties

Policies == {base, override} \cup (IF merged = None THEN {} ELSE {merged[1]})

\* C5: get_permission yields one of ALLOW/ASK/DENY for every policy and
\* tool name: the level of the explicit rule when there is one, else the
\* policy default; and right after set_permission(t, D) on a policy,
\* get_permission(t) on it is D, whether or not t had a rule before.
C5_ResolveAndSet ==
    /\ \A ps \in Policies, t \in ToolNames :
          /\ get_permission(permHeap, ps, t) \in Levels
          /\ t \in DOMAIN ps.tool_permissions =>
                get_permission(permHeap, ps, t)
                    = permHeap[ps.tool_permissions[t]].level
          /\ t \notin DOMAIN ps.tool_permissions =>
                get_permission(permHeap, ps, t) = ps.default_level
    /\ permLast.op = "set_permission" =>
          get_permission(permHeap, PolicyOf(permLast.who), permLast.tool)
              = permLast.level

\* a rule that existed is overwritten with a level that differs from the
\* policy default
C5_Witness ==
    /\ permLast.op = "set_permission" /\ permLast.who = "base"
    /\ permOps = 2
    /\ permLast.level = "deny" /\ base.default_level = "allow"
    /\ DOMAIN base.tool_permissions = {permLast.tool}

\* C6: right after merged = base.merge(override), a tool with an explicit
\* rule in override resolves in merged as in override, a tool with an
\* explicit rule only in base resolves as in base, and every other tool
\* resolves to override's default.
C6_MergePrecedence ==
    permLast.op = "merge" =>
        \A t \in ToolNames :
            get_permission(permHeap, merged[1], t) =
                IF t \in DOMAIN override.tool_permissions
                THEN get_permission(permHeap, override, t)
                ELSE IF t \in DOMAIN base.tool_permissions
                     THEN get_permission(permHeap, base, t)
                     ELSE override.default_level

\* a merge where both sets rule on the same tool differently, and base
\* alone rules on another
C6_Witness ==
    /\ permLast.op = "merge"
    /\ DOMAIN override.tool_permissions = {"shell"}
    /\ DOMAIN base.tool_permissions = ToolNames
    /\ get_permission(permHeap, base, "shell")
           # get_permission(permHeap, override, "shell")
    /\ get_permission(permHeap, base, "read_file") # override.default_level

\* C37: merge() changes neither of its inputs, and no set_permission call
\* on the merged policy changes what get_permission gives for any tool on
\* base or on override.
C37_MergedIsIndependent ==
    [][/\ permLast'.op = "merge" =>
           \A t \in ToolNames :
               /\ get_permission(permHeap', base', t)
                      = get_permission(permHeap, base, t)
               /\ get_permission(permHeap', override', t)
                      = get_permission(permHeap, override, t)
       /\ (permLast'.op = "set_permission" /\ permLast'.who = "merged"
               /\ permOps' = permOps + 1) =>
           \A t \in ToolNames :
               /\ get_permission(permHeap', base', t)
                      = get_permission(permHeap, base, t)
               /\ get_permission(permHeap', override', t)
                      = get_permission(permHeap, override, t)
      ]_vars

----------------------------------------------------------------------------
\* MCPServer._send and the reader thread (mcp_client.py)

MaxRequests == 2     \* requests sent one after the other
MaxTimeout == 4      \* largest timeout argument, in ticks
MaxJitter == 1       \* ticks by which time.sleep may oversleep

\* time.sleep(0.05): two ticks of 25 ms
PollTicks == 2

\* an id the server uses for a message that answers no request
UnsolicitedId == 99

Timeouts == 0..MaxTimeout
SleepTimes == PollTicks..(PollTicks + MaxJitter)

\* _jsonrpc_request(method, params, req_id)
JsonRpcRequest(method, id) == [jsonrpc |-> "2.0", method |-> method, id |-> id]

\* a response line of the server, parsed
JsonRpcResponse(id) == [jsonrpc |-> "2.0", id |-> id, result |-> "ok"]

NoResult == [kind |-> "none"]
TimeoutError == [kind |-> "TimeoutError"]
BrokenPipeError == [kind |-> "BrokenPipeError"]
Returned(msg) == [kind |-> "response", msg |-> msg]

\* An id generator that hands out the same id again
uuid4_Same(n) == 1

\* str(uuid.uuid4()), line 114: the n-th id drawn is one not drawn before
uuid4(n) == n

SendInit ==
    /\ now = 0
    /\ sendPc = "idle"
    /\ req_id = 0
    /\ issued = 0
    /\ deadline = 0
    /\ stdin = <<>>
    /\ response_buf = EmptyDict
    /\ sendResult = NoResult
    /\ stored = {}
    /\ inTime = {}

\* _send, lines 114-121: a fresh id, the request written and flushed under
\* the lock, deadline = time.time() + timeout
SendBegin(timeout) ==
    /\ sendPc = "idle"
    /\ issued < MaxRequests
    /\ issued' = issued + 1
    /\ req_id' = uuid4(issued + 1)
    /\ stdin' = Append(stdin, JsonRpcRequest("tools/call", uuid4(issued + 1)))
    /\ deadline' = now + timeout
    /\ sendResult' = NoResult
    /\ sendPc' = "while"
    /\ UNCHANGED <<now, response_buf, stored, inTime>>

\* _send, lines 116-118: the server process has gone and the write or the
\* flush raises BrokenPipeError; _send ends before it computes a deadline
SendWriteFails ==
    /\ sendPc = "idle"
    /\ issued < MaxRequests
    /\ issued' = issued + 1
    /\ req_id' = uuid4(issued + 1)
    /\ sendResult' = BrokenPipeError
    /\ sendPc' = "done"
    /\ UNCHANGED <<now, deadline, stdin, response_buf, stored, inTime>>

\* the request with this id reached the server's stdin
Written(id) == \E i \in 1..Len(stdin) : stdin[i].id = id

\* A loop test that gives up one poll interval early
WhileHolds_Early(t, d) == t + PollTicks < d

\* _send, line 122: while time.time() < deadline
WhileHolds(t, d) == t < d

\* the loop test; line 126 raises TimeoutError when it fails
SendWhile ==
    /\ sendPc = "while"
    /\ IF WhileHolds(now, deadline)
       THEN sendPc' = "check" /\ UNCHANGED sendResult
       ELSE sendPc' = "done" /\ sendResult' = TimeoutError
    /\ UNCHANGED <<now, req_id, issued, deadline, stdin, response_buf, stored, inTime>>

\* _send, lines 123-124: if req_id in buf: return buf.pop(req_id)
SendCheck ==
    /\ sendPc = "check"
    /\ IF req_id \in DOMAIN response_buf
       THEN /\ sendResult' = Returned(response_buf[req_id])
            /\ response_buf' =
                   [i \in (DOMAIN response_buf) \ {req_id} |-> response_buf[i]]
            /\ sendPc' = "done"
       ELSE /\ sendPc' = "sleep"
            /\ UNCHANGED <<sendResult, response_buf>>
    /\ UNCHANGED <<now, req_id, issued, deadline, stdin, stored, inTime>>

\* _send, line 125: time.sleep(0.05); time passes here, at least the poll
\* interval and at most MaxJitter more
SendSleep(d) ==
    /\ sendPc = "sleep"
    /\ now' = now + d
    /\ sendPc' = "while"
    /\ UNCHANGED <<req_id, issued, deadline, stdin, response_buf, sendResult,
                   stored, inTime>>

\* the caller has its result and may send again
SendEnd ==
    /\ sendPc = "done"
    /\ sendPc' = "idle"
    /\ req_id' = 0
    /\ UNCHANGED <<now, issued, deadline, stdin, response_buf, sendResult,
                   stored, inTime>>

\* _read_stdout, lines 104-107: the reader thread stores a message that
\* carries an id under that id. The server answers a request it has been
\* sent (at most once), or sends a message with an id of its own.
ReaderStore(id) ==
    /\ id \notin stored
    /\ id = UnsolicitedId \/ Written(id)
    /\ response_buf' = (id :> JsonRpcResponse(id)) @@ response_buf
    /\ stored' = stored \cup {id}
    /\ inTime' = IF id = req_id /\ sendPc \in {"while", "check", "sleep"}
                     /\ now < deadline
                  THEN inTime \cup {id} ELSE inTime
    /\ UNCHANGED <<now, sendPc, req_id, issued, deadline, stdin, sendResult>>

CallerStep ==
    \/ \E t \in Timeouts : SendBegin(t)
    \/ SendWriteFails
    \/ SendWhile
    \/ SendCheck
    \/ \E d \in SleepTimes : SendSleep(d)
    \/ SendEnd

SendNext ==
    \/ CallerStep
    \/ \E id \in (1..MaxRequests) \cup {UnsolicitedId} : ReaderStore(id)

----------------------------------------------------------------------------
\* _send properties

\* C7: a request that was written to the server and whose id never reaches
\* the correlation table ends with TimeoutError and not with a response;
\* TimeoutError is never raised before the timeout has elapsed and less
\* than one poll interval (plus the oversleep) after it; and the wait
\* always ends.
C7_TimeoutBounded ==
    /\ [](sendPc = "done" /\ Written(req_id) /\ req_id \notin stored
            => sendResult = TimeoutError)
    /\ [](sendResult = TimeoutError =>
            /\ now >= deadline
            /\ now < deadline + PollTicks + MaxJitter)
    /\ [](sendPc \in {"while", "check", "sleep"} => <>(sendPc = "done"))

\* a request that was never answered timed out after polling
C7_Witness ==
    /\ sendPc = "done" /\ Written(req_id) /\ req_id \notin stored
    /\ sendResult = TimeoutError
    /\ deadline > now - PollTicks /\ now > deadline /\ now >= 2 * PollTicks

\* C38: a request whose response the reader thread stored strictly before
\* the request's deadline ends with that response and not with
\* TimeoutError, wherever between two polls the response was stored.
C38_InTimeResponseReturned ==
    (sendPc = "done" /\ req_id \in inTime) =>
        sendResult = Returned(JsonRpcResponse(req_id))

\* C32: the requests written to a server carry pairwise different ids, and
\* a _send that returns a message returns one whose id is the id of its
\* own request, whatever the reader thread has stored in the meantime.
C32_ResponseMatchesRequest ==
    /\ \A i \in 1..Len(stdin), j \in 1..Len(stdin) :
           i # j => stdin[i].id # stdin[j].id
    /\ (sendPc = "done" /\ sendResult.kind = "response") =>
           /\ sendResult.msg.id = req_id
           /\ req_id = stdin[Len(stdin)].id

\* the first request timed out; its late response and an unsolicited
\* message were stored while the second request waited, and the second
\* request returned its own response
C32_Witness ==
    /\ sendPc = "done" /\ Len(stdin) = 2 /\ req_id = stdin[2].id
    /\ sendResult = Returned(JsonRpcResponse(req_id))
    /\ stored = {stdin[1].id, stdin[2].id, UnsolicitedId}
    /\ DOMAIN response_buf = {stdin[1].id, UnsolicitedId}

----------------------------------------------------------------------------
\* Agent definitions and the tool dispatcher (agents.py, permissions.py,
\* agent.py, tools.py)

MaxCalls == 2        \* tool calls dispatched one after the other

\* ToolResult(success, output, error)
ToolResult(success, output, error) ==
    [success |-> success, output |-> output, error |-> error]
Failed(error) == ToolResult(FALSE, "", Some(error))

\* the handlers of ToolExecutor.execute
BuiltinTools ==
    {"shell", "read_file", "write_file", "edit_file", "multi_edit",
     "apply_patch", "list_files", "glob", "grep", "tree", "web_fetch",
     "web_search", "task", "todo", "notebook_edit"}

\* the rules of a preset as a heap of ToolPermission objects and a
\* PermissionSet that refers to them
PresetHeap(name, rules) ==
    [r \in {<<name, t>> : t \in DOMAIN rules} |-> ToolPermission(r[2], rules[r[2]])]
Preset(name, default_level, rules) ==
    PermissionSet(name, default_level, [t \in DOMAIN rules |-> <<name, t>>])

\* build_permissions()
BuildRules ==
    [t \in BuiltinTools |->
        IF t \in {"shell", "web_fetch", "web_search"} THEN "ask" ELSE "allow"]
\* plan_permissions()
PlanRules ==
    [t \in {"read_file", "list_files", "glob", "grep", "tree", "web_fetch",
             "web_search", "todo"} |->
        IF t \in {"web_fetch", "web_search"} THEN "ask" ELSE "allow"]
\* subagent_permissions()
SubagentRules == [BuildRules EXCEPT !["task"] = "deny"]

AgentNames == {"build", "plan", "subagent"}

\* AGENT_REGISTRY[name].permission_set
permission_set(name) ==
    CASE name = "build" -> Preset("build", "allow", BuildRules)
      [] name = "plan" -> Preset("plan", "deny", PlanRules)
      [] OTHER -> Preset("subagent", "allow", SubagentRules)

RegistryHeap ==
    PresetHeap("build", BuildRules) @@ PresetHeap("plan", PlanRules)
        @@ PresetHeap("subagent", SubagentRules)

\* the decision of the active policy for a tool name
Decision(agent, tool_name) ==
    get_permission(RegistryHeap, permission_set(agent), tool_name)

\* json.loads on the argument strings the model draws: None stands for
\* JSONDecodeError
JsonLoads(text) ==
    CASE text = "{}" -> Some([k \in {} |-> ""])
      [] text = "{\"command\": \"ls\"}" -> Some([command |-> "ls"])
      [] text = "{\"prompt\": \"go\"}" -> Some([prompt |-> "go"])
      [] OTHER -> None

\* repr() of a plain string
Repr(text) == "'" \o text \o "'"

\* `sub in text`
Contains(text, sub) ==
    \E i \in 1..(Len(text) - Len(sub) + 1) :
        SubSeq(text, i, i + Len(sub) - 1) = sub

\* text.strip()
RECURSIVE Strip(_)
Strip(text) ==
    IF text = "" THEN ""
    ELSE IF SubSeq(text, 1, 1) = " " THEN Strip(SubSeq(text, 2, Len(text)))
    ELSE IF SubSeq(text, Len(text), Len(text)) = " "
    THEN Strip(SubSeq(text, 1, Len(text) - 1))
    ELSE text

\* s.startswith(prefix)
StartsWith(s, prefix) ==
    Len(s) >= Len(prefix) /\ SubSeq(s, 1, Len(prefix)) = prefix

\* ToolExecutor.execute: an unknown name fails, a handler returns its
\* result, and an exception of a handler comes back as a failed result
execute(tool_name, outcome) ==
    IF tool_name \notin BuiltinTools
    THEN Failed("Unknown tool: " \o tool_name)
    ELSE outcome

\* MCPManager.call_tool
mcp_call_tool(tools, tool_name, outcome) ==
    IF tool_name \notin tools
    THEN Failed("No MCP server provides tool " \o Repr(tool_name))
    ELSE outcome

\* An _execute_tool that routes to an MCP server before it looks at the policy
execute_tool_RouteFirst(agent, auto, cb, tools, call, env) ==
    IF JsonLoads(call.arguments) = None
    THEN [result |-> Failed("Invalid JSON arguments: " \o call.arguments),
          trace |-> <<>>]
    ELSE IF call.name \in tools
    THEN [result |-> mcp_call_tool(tools, call.name, env.mcp), trace |-> <<"mcp">>]
    ELSE IF is_denied(RegistryHeap, permission_set(agent), call.name)
    THEN [result |-> Failed("Tool " \o Repr(call.name)
                              \o " is not permitted for the " \o agent \o " agent"),
          trace |-> <<>>]
    ELSE [result |-> execute(call.name, env.builtin), trace |-> <<"builtin">>]

\* An _execute_tool that parses the arguments after the permission checks
execute_tool_ParseLate(agent, auto, cb, tools, call, env) ==
    LET perm == permission_set(agent)
        asks == needs_approval(RegistryHeap, perm, call.name) /\ ~auto /\ cb
        asked == IF asks THEN <<"approval">> ELSE <<>>
    IN
    IF is_denied(RegistryHeap, perm, call.name)
    THEN [result |-> Failed("Tool " \o Repr(call.name)
                              \o " is not permitted for the " \o agent \o " agent"),
          trace |-> <<>>]
    ELSE IF asks /\ ~env.approve
    THEN [result |-> Failed("Tool execution denied by user"), trace |-> asked]
    ELSE IF JsonLoads(call.arguments) = None
    THEN [result |-> Failed("Invalid JSON arguments: " \o call.arguments),
          trace |-> asked]
    ELSE IF call.name \in tools
    THEN [result |-> mcp_call_tool(tools, call.name, env.mcp),
          trace |-> asked \o <<"mcp">>]
    ELSE [result |-> execute(call.name, env.builtin),
          trace |-> asked \o <<"builtin">>]

\* An _execute_tool that asks the callback also when auto_approve_tools is set
execute_tool_AskAlways(agent, auto, cb, tools, call, env) ==
    LET perm == permission_set(agent)
        asks == needs_approval(RegistryHeap, perm, call.name) /\ cb
        asked == IF asks THEN <<"approval">> ELSE <<>>
    IN
    IF JsonLoads(call.arguments) = None
    THEN [result |-> Failed("Invalid JSON arguments: " \o call.arguments),
          trace |-> <<>>]
    ELSE IF is_denied(RegistryHeap, perm, call.name)
    THEN [result |-> Failed("Tool " \o Repr(call.name)
                              \o " is not permitted for the " \o agent \o " agent"),
          trace |-> <<>>]
    ELSE IF asks /\ ~env.approve
    THEN [result |-> Failed("Tool execution denied by user"), trace |-> asked]
    ELSE IF call.name \in tools
    THEN [result |-> mcp_call_tool(tools, call.name, env.mcp),
          trace |-> asked \o <<"mcp">>]
    ELSE [result |-> execute(call.name, env.builtin),
          trace |-> asked \o <<"builtin">>]

\* Agent._execute_tool: the ToolResult returned, and the calls made on the
\* way (approval callback, MCP server, built-in executor), in order.
\* env holds what the callees answer: the callback, the server, the handler.
execute_tool(agent, auto, cb, tools, call, env) ==
    LET perm == permission_set(agent)
        asks == needs_approval(RegistryHeap, perm, call.name) /\ ~auto /\ cb
        asked == IF asks THEN <<"approval">> ELSE <<>>
    IN
    IF JsonLoads(call.arguments) = None
    THEN [result |-> Failed("Invalid JSON arguments: " \o call.arguments),
          trace |-> <<>>]
    ELSE IF is_denied(RegistryHeap, perm, call.name)
    THEN [result |-> Failed("Tool " \o Repr(call.name)
                              \o " is not permitted for the " \o agent \o " agent"),
          trace |-> <<>>]
    ELSE IF asks /\ ~env.approve
    THEN [result |-> Failed("Tool execution denied by user"), trace |-> asked]
    ELSE IF call.name \in tools
    THEN [result |-> mcp_call_tool(tools, call.name, env.mcp),
          trace |-> asked \o <<"mcp">>]
    ELSE [result |-> execute(call.name, env.builtin),
          trace |-> asked \o <<"builtin">>]

CallNames == {"shell", "read_file", "task", "echo"}
ArgStrings == {"{}", "{\"command\": \"ls\"}", "{bad"}
McpToolSets == {{}, {"echo"}, {"echo", "shell"}}
Outcomes == {ToolResult(TRUE, "out", None), Failed("boom")}
Envs == [approve : BOOLEAN, mcp : Outcomes, builtin : Outcomes]

\* stream, line 175: the text recorded for a tool result
result_content(result) ==
    IF result.success THEN result.output
    ELSE "Error: " \o (IF IsNone(result.error) THEN "None" ELSE result.error[1])

NoCall == [name |-> "", arguments |-> "", decision |-> "", trace |-> <<>>,
           answer |-> None, recorded |-> ""]
NoToolResult == ToolResult(TRUE, "", None)

ToolInit ==
    /\ agent_name \in AgentNames
    /\ auto_approve_tools \in BOOLEAN
    /\ has_callback \in BOOLEAN
    /\ mcp_tools \in McpToolSets
    /\ events = {}
    /\ lastCall = NoCall
    /\ toolResult = NoToolResult
    /\ dispatched = 0

\* one tool call of a turn: _execute_tool from entry to return, and the
\* text stream() then records for it (lines 173-180). The history keeps
\* the calls made on the way and what the approval callback answered.
ExecuteTool(name, arguments, env) ==
    /\ dispatched < MaxCalls
    /\ LET call == [name |-> name, arguments |-> arguments]
           r == execute_tool(agent_name, auto_approve_tools, has_callback,
                             mcp_tools, call, env)
           d == Decision(agent_name, name)
       IN  /\ toolResult' = r.result
           /\ events' = events \cup
                 {[kind |-> r.trace[i], tool |-> name, decision |-> d] :
                      i \in 1..Len(r.trace)}
           /\ lastCall' = [name |-> name, arguments |-> arguments, decision |-> d,
                           trace |-> r.trace,
                           answer |-> IF r.trace # <<>> /\ r.trace[1] = "approval"
                                      THEN Some(env.approve) ELSE None,
                           recorded |-> result_content(r.result)]
    /\ dispatched' = dispatched + 1
    /\ UNCHANGED <<agent_name, auto_approve_tools, has_callback, mcp_tools>>

\* Agent.switch_agent: another agent definition becomes the active one
SwitchAgent(name) ==
    /\ name # agent_name
    /\ agent_name' = name
    /\ UNCHANGED <<auto_approve_tools, has_callback, mcp_tools, events,
                   lastCall, toolResult, dispatched>>

ToolNext ==
    \/ \E n \in CallNames, a \in ArgStrings, env \in Envs : ExecuteTool(n, a, env)
    \/ \E n \in AgentNames : SwitchAgent(n)

----------------------------------------------------------------------------
\* Dispatcher properties

\* C8: when the active policy resolves the tool name to DENY and the
\* arguments parse, _execute_tool returns a failed result whose error
\* contains "not permitted"; and no tool whose decision was DENY at the
\* time of its call has been run by the built-in executor, forwarded to an
\* MCP server or shown to the approval callback.
C8_DenyIsFinal ==
    /\ (lastCall.decision = "deny" /\ JsonLoads(lastCall.arguments) # None) =>
          /\ toolResult.success = FALSE
          /\ toolResult.error # None
          /\ Contains(toolResult.error[1], "not permitted")
    /\ \A e \in events : e.decision # "deny"

\* a denied call of a tool an MCP server provides, under the plan agent,
\* after an allowed tool has run
C8_Witness ==
    /\ lastCall.decision = "deny" /\ lastCall.name = "shell"
    /\ lastCall.arguments = "{\"command\": \"ls\"}"
    /\ agent_name = "plan" /\ "shell" \in mcp_tools
    /\ events # {}

\* C21: when the argument string of a tool call does not parse as JSON,
\* _execute_tool returns the "Invalid JSON arguments" failure at once: the
\* result is not the outcome of a permission check, the approval callback,
\* the built-in executor and the MCP servers are not called, and the loop
\* records that failure as the call's result and goes on.
C21_BadArgumentsFailAtOnce ==
    (dispatched > 0 /\ JsonLoads(lastCall.arguments) = None) =>
        /\ toolResult = Failed("Invalid JSON arguments: " \o lastCall.arguments)
        /\ ~Contains(toolResult.error[1], "not permitted")
        /\ lastCall.trace = <<>>
        /\ lastCall.answer = None
        /\ lastCall.recorded = "Error: Invalid JSON arguments: " \o lastCall.arguments

\* a second call of the turn with unparsable arguments, for a tool the
\* policy would ask about, with a callback supplied and no auto-approval
C21_Witness ==
    /\ dispatched = 2 /\ lastCall.arguments = "{bad"
    /\ lastCall.decision = "ask" /\ ~auto_approve_tools /\ has_callback
    /\ lastCall.name \in mcp_tools

\* the calls _execute_tool makes after the approval stage
Executes(trace) == trace \in {<<"mcp">>, <<"builtin">>}

\* C22: for a tool call whose arguments parse, the approval callback is
\* invoked exactly when the decision is ASK, auto_approve_tools is false
\* and a callback is supplied, once and before anything else; when it
\* answers false the result is the "denied by user" failure and nothing is
\* executed; when it answers true, and when the decision is ASK without
\* auto-approval and without a callback, the tool is executed.
C22_ApprovalGating ==
    (dispatched > 0 /\ JsonLoads(lastCall.arguments) # None) =>
        LET asks == /\ lastCall.decision = "ask"
                    /\ ~auto_approve_tools
                    /\ has_callback
        IN  /\ (lastCall.answer # None) <=> asks
            /\ asks => /\ lastCall.trace[1] = "approval"
                        /\ \A i \in 2..Len(lastCall.trace) :
                               lastCall.trace[i] # "approval"
            /\ ~asks => \A i \in 1..Len(lastCall.trace) :
                            lastCall.trace[i] # "approval"
            /\ lastCall.answer = Some(FALSE) =>
                   /\ toolResult = Failed("Tool execution denied by user")
                   /\ lastCall.trace = <<"approval">>
            /\ lastCall.answer = Some(TRUE) =>
                   /\ Len(lastCall.trace) = 2
                   /\ Executes(Tail(lastCall.trace))
            /\ (lastCall.decision = "ask" /\ ~auto_approve_tools /\ ~has_callback)
                   => Executes(lastCall.trace)

\* the callback answers false for a shell command of the build agent
C22_Witness ==
    /\ dispatched > 0 /\ lastCall.name = "shell" /\ lastCall.decision = "ask"
    /\ lastCall.arguments = "{\"command\": \"ls\"}"
    /\ lastCall.answer = Some(FALSE)
    /\ toolResult = Failed("Tool execution denied by user")

----------------------------------------------------------------------------
\* MCPServer.call_tool (mcp_client.py)

MaxBlocks == 2       \* content blocks in a tools/call result

\* dict.get(key, default) on a JSON object
Get(obj, key, default) == IF key \in DOMAIN obj THEN obj[key] ELSE default

\* content blocks a server may return
Blocks ==
    {[type |-> "text", text |-> "hi"], [type |-> "text", text |-> "there"],
     [type |-> "image", data |-> "AAAA"], [type |-> "text"]}

RECURSIVE SeqsUpTo(_, _)
SeqsUpTo(S, n) ==
    IF n = 0 THEN {<<>>}
    ELSE LET shorter == SeqsUpTo(S, n - 1)
         IN  shorter \cup {Append(q, x) : q \in shorter, x \in S}

\* the result objects of tools/call responses: a content list, and isError
\* absent, false or true
CallResults ==
    {[content |-> c] : c \in SeqsUpTo(Blocks, MaxBlocks)}
        \cup {[content |-> c, isError |-> e] :
                 c \in SeqsUpTo(Blocks, MaxBlocks), e \in BOOLEAN}

\* what _send gives call_tool: a response that carries a result, or an
\* exception (TimeoutError, BrokenPipeError)
SendOutcomes ==
    {[kind |-> "response", msg |-> [jsonrpc |-> "2.0", id |-> 1, result |-> r]] :
        r \in CallResults}
        \cup {[kind |-> "raise", text |-> "MCP server 'srv' did not respond to 'tools/call'"],
              [kind |-> "raise", text |-> "[Errno 32] Broken pipe"]}

\* sep.join(parts)
RECURSIVE Join(_, _)
Join(strs, sep) ==
    IF strs = <<>> THEN ""
    ELSE IF Len(strs) = 1 THEN strs[1]
    ELSE strs[1] \o sep \o Join(Tail(strs), sep)

\* [b.get("text", "") for b in content_blocks if b.get("type") == "text"]
TextParts(content_blocks) ==
    LET IsText(b) == Get(b, "type", "") = "text"
        texts == SelectSeq(content_blocks, IsText)
    IN  [i \in 1..Len(texts) |-> Get(texts[i], "text", "")]

\* A call_tool that takes isError for the success flag
call_tool_FlagSwapped(outcome) ==
    IF outcome.kind = "raise"
    THEN Failed(outcome.text)
    ELSE LET result == Get(outcome.msg, "result", [k \in {} |-> ""])
             output == Join(TextParts(Get(result, "content", <<>>)), "\n")
             is_error == Get(result, "isError", FALSE)
         IN  ToolResult(is_error, output, IF is_error THEN Some(output) ELSE None)

\* MCPServer.call_tool, given what _send does
call_tool(outcome) ==
    IF outcome.kind = "raise"
    THEN Failed(outcome.text)
    ELSE LET result == Get(outcome.msg, "result", [k \in {} |-> ""])
             content_blocks == Get(result, "content", <<>>)
             text_parts == TextParts(content_blocks)
             output == Join(text_parts, "\n")
             is_error == Get(result, "isError", FALSE)
         IN  ToolResult(~is_error, output, IF is_error THEN Some(output) ELSE None)

CallInit ==
    /\ sendOutcome \in SendOutcomes
    /\ callResult = None

CallTool ==
    /\ callResult = None
    /\ callResult' = Some(call_tool(sendOutcome))
    /\ UNCHANGED sendOutcome

CallNext == CallTool

----------------------------------------------------------------------------
\* call_tool properties

\* the texts of the text-typed blocks, in order, one per line
RECURSIVE ExpectedOutput(_)
ExpectedOutput(blocks) ==
    IF blocks = <<>> THEN ""
    ELSE LET b == Head(blocks)
             rest == ExpectedOutput(Tail(blocks))
             text == IF "text" \in DOMAIN b THEN b.text ELSE ""
             later == \E i \in 2..Len(blocks) :
                         "type" \in DOMAIN blocks[i] /\ blocks[i].type = "text"
         IN  IF "type" \in DOMAIN b /\ b.type = "text"
             THEN (IF later THEN text \o "\n" \o rest ELSE text)
             ELSE rest

HiExample ==
    [kind |-> "response",
     msg |-> [jsonrpc |-> "2.0", id |-> 1,
              result |-> [content |-> <<[type |-> "text", text |-> "hi"]>>,
                          isError |-> FALSE]]]

\* C9: for a tools/call response that carries a result, call_tool returns
\* a ToolResult whose output is the newline-join of the texts of the
\* text-typed content blocks in order, whose success is the negation of
\* isError (success when isError is absent) and whose error is the output
\* when isError is true and None otherwise; one text block "hi" with
\* isError false gives success = true, output = "hi".
C9_CallToolMapping ==
    (callResult # None /\ sendOutcome.kind = "response") =>
        LET result == sendOutcome.msg.result
            is_error == "isError" \in DOMAIN result /\ result.isError
            r == callResult[1]
        IN  /\ r.output = ExpectedOutput(result.content)
            /\ r.success = ~is_error
            /\ is_error => r.error = Some(r.output)
            /\ ~is_error => r.error = None
            /\ sendOutcome = HiExample => (r.success /\ r.output = "hi")

\* a result with two text blocks around an image block, and isError true
C9_Witness ==
    /\ callResult # None /\ sendOutcome.kind = "response"
    /\ Len(sendOutcome.msg.result.content) = MaxBlocks
    /\ "isError" \in DOMAIN sendOutcome.msg.result
    /\ sendOutcome.msg.result.isError
    /\ callResult[1].output = "hi\nthere"
    /\ callResult[1].error = Some("hi\nthere")

----------------------------------------------------------------------------
\* Usage accounting (session.py UsageStats, agent.py _spawn_subagent)

MaxUsageOps == 4     \* usage operations explored

UsageStats(prompt, completion, total) ==
    [prompt_tokens |-> prompt, completion_tokens |-> completion,
     total_tokens |-> total]

\* A UsageStats.add that forgets the completion tokens in the total
UsageAdd_PromptOnly(u, prompt, completion) ==
    UsageStats(u.prompt_tokens + prompt, u.completion_tokens + completion,
               u.total_tokens + prompt)

\* UsageStats.add
UsageAdd(u, prompt, completion) ==
    UsageStats(u.prompt_tokens + prompt, u.completion_tokens + completion,
               u.total_tokens + prompt + completion)

\* token counts of one model response (prompt, completion)
TokenCounts == {<<100, 50>>, <<10, 5>>, <<0, 7>>}

UsageOp(name, before, child) == [op |-> name, before |-> before, child |-> child]

UsageInit ==
    /\ usage = UsageStats(0, 0, 0)
    /\ child_usage = None
    /\ usageLast = UsageOp("init", UsageStats(0, 0, 0), UsageStats(0, 0, 0))
    /\ usageOps = 0

\* Agent.stream, lines 146-150: the parent loop records a response's usage;
\* it does not run while a sub-agent is running
RecordUsage(tokens) ==
    /\ usageOps < MaxUsageOps
    /\ child_usage = None
    /\ usage' = UsageAdd(usage, tokens[1], tokens[2])
    /\ usageLast' = UsageOp("record_usage", usage, UsageStats(0, 0, 0))
    /\ usageOps' = usageOps + 1
    /\ UNCHANGED child_usage

\* _spawn_subagent, lines 264-284: the forked child session starts with
\* a usage of its own
SpawnSubagent ==
    /\ usageOps < MaxUsageOps
    /\ child_usage = None
    /\ child_usage' = Some(UsageStats(0, 0, 0))
    /\ usageLast' = UsageOp("spawn", usage, UsageStats(0, 0, 0))
    /\ usageOps' = usageOps + 1
    /\ UNCHANGED usage

\* the child loop records a response's usage in the child session
ChildRecordUsage(tokens) ==
    /\ usageOps < MaxUsageOps
    /\ child_usage # None
    /\ child_usage' = Some(UsageAdd(child_usage[1], tokens[1], tokens[2]))
    /\ usageLast' = UsageOp("child_record_usage", usage, child_usage[1])
    /\ usageOps' = usageOps + 1
    /\ UNCHANGED usage

\* _spawn_subagent, lines 287-295: child_agent.run returned; the child's
\* prompt and completion counts are added to the parent's usage
SubagentReturns ==
    /\ child_usage # None
    /\ usage' = UsageAdd(usage, child_usage[1].prompt_tokens,
                         child_usage[1].completion_tokens)
    /\ child_usage' = None
    /\ usageLast' = UsageOp("merge", usage, child_usage[1])
    /\ UNCHANGED usageOps

\* child_agent.run raised (a model-backend error): line 290 is not reached
SubagentRaises ==
    /\ child_usage # None
    /\ child_usage' = None
    /\ usageLast' = UsageOp("child_failed", usage, child_usage[1])
    /\ UNCHANGED <<usage, usageOps>>

UsageNext ==
    \/ \E t \in TokenCounts : RecordUsage(t)
    \/ SpawnSubagent
    \/ \E t \in TokenCounts : ChildRecordUsage(t)
    \/ SubagentReturns
    \/ SubagentRaises

----------------------------------------------------------------------------
\* Usage properties

Consistent(u) == u.total_tokens = u.prompt_tokens + u.completion_tokens

\* C10: when a sub-agent returns, the parent's counters have grown by the
\* child's session totals (prompt by the child's prompt, completion by the
\* child's completion, total by the sum of the two), e.g. {100, 50} and
\* {10, 5} give {110, 55, 165}; and total_tokens = prompt_tokens +
\* completion_tokens after any sequence of record_usage calls and merges.
C10_UsageMerge ==
    /\ Consistent(usage)
    /\ child_usage # None => Consistent(child_usage[1])
    /\ usageLast.op = "merge" =>
          LET p == usageLast.before
              c == usageLast.child
          IN  /\ usage.prompt_tokens = p.prompt_tokens + c.prompt_tokens
              /\ usage.completion_tokens
                     = p.completion_tokens + c.completion_tokens
              /\ usage.total_tokens
                     = p.total_tokens + c.prompt_tokens + c.completion_tokens
              /\ (p = UsageStats(100, 50, 150) /\ c = UsageStats(10, 5, 15))
                     => usage = UsageStats(110, 55, 165)

\* the parent at {100, 50} merges a child that used {10, 5}
C10_Witness ==
    /\ usageLast.op = "merge"
    /\ usageLast.before = UsageStats(100, 50, 150)
    /\ usageLast.child = UsageStats(10, 5, 15)
    /\ usage = UsageStats(110, 55, 165)

----------------------------------------------------------------------------
\* Session persistence (session.py: Message.to_api_format, UsageStats.to_dict,
\* Session.save, Session.load)

\* The base system prompt an Agent builds, and the same prompt followed by a
\* project-documentation block as read_project_docs formats it
BasePrompt == "You are a coding assistant.\n\nWorking Directory: /proj\n"
DocsMarker == "Instructions from:"
DocsPrompt == BasePrompt \o "\n" \o DocsMarker \o " /proj/AGENTS.md\nUse tabs."

StorePrompts == {"", "SYS", DocsPrompt}
ParentIds == {None, Some("p0")}

\* the Session as a value
SessionValue(prompt, msgs, turns, id, parent, child_ids, u) ==
    [system_prompt |-> prompt, messages |-> msgs, turn_count |-> turns,
     session_id |-> id, parent_session_id |-> parent,
     child_session_ids |-> child_ids, usage |-> u]

ThisSession ==
    SessionValue(system_prompt, messages, turn_count, session_id,
                 parent_session_id, child_session_ids, session_usage)

\* Message.to_api_format: content is kept unless it is None; tool_calls,
\* tool_call_id and name are kept when they are truthy
to_api_format(m) ==
    LET keys == {"role"}
                 \cup (IF m.content # None THEN {"content"} ELSE {})
                 \cup (IF TruthyList(m.tool_calls) THEN {"tool_calls"} ELSE {})
                 \cup (IF TruthyStr(m.tool_call_id) THEN {"tool_call_id"} ELSE {})
                 \cup (IF TruthyStr(m.name) THEN {"name"} ELSE {})
    IN  [k \in keys |->
            CASE k = "role" -> m.role
              [] k = "content" -> m.content[1]
              [] k = "tool_calls" -> m.tool_calls[1]
              [] k = "tool_call_id" -> m.tool_call_id[1]
              [] OTHER -> m.name[1]]

\* UsageStats.to_dict
to_dict(u) ==
    [prompt_tokens |-> u.prompt_tokens,
     completion_tokens |-> u.completion_tokens,
     total_tokens |-> u.total_tokens]

\* Session.save: the data written to the file. json.dump and json.load give
\* back equal values for dicts with string keys, lists, strings, integers
\* and None, which is all the data holds.
save(sess) ==
    [session_id |-> sess.session_id,
     parent_session_id |-> sess.parent_session_id,
     child_session_ids |-> sess.child_session_ids,
     system_prompt |-> sess.system_prompt,
     messages |-> [i \in 1..Len(sess.messages) |-> to_api_format(sess.messages[i])],
     turn_count |-> sess.turn_count,
     usage |-> to_dict(sess.usage)]

\* msg_data.get(key)
GetOpt(obj, key) == IF key \in DOMAIN obj THEN Some(obj[key]) ELSE None

\* Session.load, lines 199-206: one Message from its saved form
from_api_format(msg_data) ==
    Message(msg_data.role, GetOpt(msg_data, "content"),
            GetOpt(msg_data, "tool_calls"), GetOpt(msg_data, "tool_call_id"),
            GetOpt(msg_data, "name"))

\* Session.load: a new Session is built from the prompt and the turn count,
\* then its ids, usage and messages are set from the data
load(data, fresh_id) ==
    LET session == NewSession(data.system_prompt, fresh_id, None)
        usage_data == Get(data, "usage", EmptyDict)
    IN  SessionValue(session.system_prompt,
                     [i \in 1..Len(data.messages) |-> from_api_format(data.messages[i])],
                     data.turn_count,
                     Get(data, "session_id", session.session_id),
                     Get(data, "parent_session_id", None),
                     Get(data, "child_session_ids", <<>>),
                     UsageStats(Get(usage_data, "prompt_tokens", 0),
                                Get(usage_data, "completion_tokens", 0),
                                Get(usage_data, "total_tokens", 0)))

\* What add_assistant_message is called with: a text, a text that is empty,
\* a list of tool calls, and a list of tool calls that is empty
StoreAssistantInputs ==
    AssistantInputs \cup { <<Some(""), None>>, <<Some("b"), Some(<<>>)>> }

StoreInit ==
    \E p \in StorePrompts, parent \in ParentIds :
        /\ system_prompt = p
        /\ messages = PostInit(p, <<>>)
        /\ turn_count = 0
        /\ session_id = "s1"
        /\ child_session_ids = <<>>
        /\ children = <<>>
        /\ nAdds = 0
        /\ rebuilt = FALSE
        /\ nCompacts = 0
        /\ lastOp = Op("init", "")
        /\ extra = 0
        /\ parent_session_id = parent
        /\ session_usage = UsageStats(0, 0, 0)
        /\ file = None
        /\ origin = None
        /\ loaded = None

\* Session.record_usage
SessionRecordUsage(tokens) ==
    /\ extra < MaxExtra
    /\ session_usage' = UsageAdd(session_usage, tokens[1], tokens[2])
    /\ lastOp' = Op("record_usage", "")
    /\ extra' = extra + 1
    /\ UNCHANGED <<system_prompt, messages, turn_count, session_id,
                   child_session_ids, children, nAdds, rebuilt, nCompacts,
                   parent_session_id, file, origin, loaded>>

\* Session.save(path)
Save ==
    /\ extra < MaxExtra
    /\ file' = Some(save(ThisSession))
    /\ origin' = Some(ThisSession)
    /\ loaded' = None
    /\ lastOp' = Op("save", "")
    /\ extra' = extra + 1
    /\ UNCHANGED <<system_prompt, messages, turn_count, session_id,
                   child_session_ids, children, nAdds, rebuilt, nCompacts,
                   parent_session_id, session_usage>>

\* Session.load(path), of the file the last save wrote
Load ==
    /\ extra < MaxExtra
    /\ file # None
    /\ loaded' = Some(load(file[1], "s9"))
    /\ lastOp' = Op("load", "")
    /\ extra' = extra + 1
    /\ UNCHANGED <<system_prompt, messages, turn_count, session_id,
                   child_session_ids, children, nAdds, rebuilt, nCompacts,
                   parent_session_id, session_usage, file, origin>>

\* the operations that change the history, the counter or the children
StoreSessionOp ==
    \/ AddUserMessage("a")
    \/ \E a \in StoreAssistantInputs : AddAssistantMessage(a[1], a[2])
    \/ AddToolResult("c0", "shell", "out")
    \/ Fork(None, "s2")
    \/ Compact("S")
    \/ Clear

StoreNext ==
    \/ StoreSessionOp /\ UNCHANGED storeVars
    \/ SessionRecordUsage(<<10, 5>>)
    \/ Save
    \/ Load

----------------------------------------------------------------------------
\* Persistence and counter properties

\* C26: the Session that load() builds from the file save() wrote equals
\* the saved Session in its messages (role, content, tool_calls,
\* tool_call_id and name of each), usage totals, session id, parent id,
\* child ids and turn count.
C26_SaveLoadRoundTrip ==
    loaded # None => loaded[1] = origin[1]

\* C27: no Session operation makes the turn counter smaller, and
\* add_user_message makes it larger by exactly one.
C27_TurnCountNeverDecreases ==
    [][/\ turn_count' >= turn_count
       /\ lastOp'.op = "add_user_message" /\ extra' = extra + 1
              => turn_count' = turn_count + 1
      ]_vars

\* C28: after compact() the retained system message has lost the
\* project-documentation block (the text from "Instructions from:" on) and
\* still starts with the base prompt; a prompt without such a block is
\* retained as it is.
C28_CompactStripsProjectDocs ==
    (lastOp.op = "compact" /\ system_prompt # "") =>
        /\ messages[1].role = "system"
        /\ ~Contains(messages[1].content[1], DocsMarker)
        /\ IF Contains(system_prompt, DocsMarker)
           THEN StartsWith(messages[1].content[1], BasePrompt)
           ELSE messages[1].content[1] = system_prompt

----------------------------------------------------------------------------
\* Sub-agent spawning (agent.py: Agent.__init__, _spawn_subagent;
\* tools.py: ToolExecutor._execute_task)

\* Agent.__init__, lines 74-78: the executor gets _spawn_subagent as its
\* subagent_callback unless the Agent was built with _is_subagent
subagent_callback(is_sub) == ~is_sub

\* A _spawn_subagent that builds the child like the Agent it runs in
spawn_child_AsPrimary(parent) ==
    [agent_name |-> parent.agent_name, is_subagent |-> parent.is_subagent]

\* _spawn_subagent, lines 270-281: the child Agent takes the "subagent"
\* definition and is built with _is_subagent=True
spawn_child(parent) == [agent_name |-> "subagent", is_subagent |-> TRUE]

\* ToolExecutor._execute_task up to the call of the callback: a failed
\* result, or the decision to run subagent_callback(description, prompt)
execute_task(arguments, callback) ==
    IF Get(arguments, "prompt", "") = ""
    THEN [kind |-> "result", result |-> Failed("No prompt provided")]
    ELSE IF ~callback
    THEN [kind |-> "result", result |-> Failed("Subagent spawning not available")]
    ELSE [kind |-> "spawn", result |-> NoToolResult]

\* _execute_task, lines 666-670: what the task tool returns once
\* child_agent.run has returned or raised
task_result(outcome) ==
    IF outcome.kind = "raise"
    THEN Failed("Subagent failed: " \o outcome.text)
    ELSE ToolResult(TRUE, outcome.text, None)

\* the servers a configuration file can name
ServerNames == {"docs", "db"}

\* the top-level Agent
TopAgent == 1

\* Agent.__init__, lines 81-87, for the Agent with this number: start_all
\* starts a process for every server of the configuration (every server is
\* taken to start)
started_by(agent, servers) == {[agent |-> agent, server |-> s] : s \in servers}

\* Agent.shutdown, lines 344-346: mcp.shutdown_all() goes through the servers
\* of this Agent's own MCPManager (every shutdown is taken to end its process)
agent_shutdown(procs, agent) == {p \in procs : p.agent # agent}

SpawnCallNames == {"task", "shell"}
TaskArgStrings == {"{}", "{\"prompt\": \"go\"}", "{bad"}
ChildOutcomes == { [kind |-> "return", text |-> "ans"], Raise("KeyError") }

\* the Agent whose loop is running
Running == [agent_name |-> agent_name, is_subagent |-> is_subagent]

\* what _execute_tool does with a call in the running Agent: the handler of
\* the task tool is _execute_task, the other handlers answer env.builtin
Dispatch(name, arguments, env) ==
    LET handler == IF name = "task" /\ JsonLoads(arguments) # None
                   THEN execute_task(JsonLoads(arguments)[1],
                                     subagent_callback(is_subagent))
                   ELSE [kind |-> "result", result |-> env.builtin]
        r == execute_tool(agent_name, auto_approve_tools, has_callback, mcp_tools,
                          [name |-> name, arguments |-> arguments],
                          [env EXCEPT !.builtin = handler.result])
    IN  [handler |-> handler, r |-> r,
         spawns |-> /\ handler.kind = "spawn"
                    /\ r.trace # <<>>
                    /\ r.trace[Len(r.trace)] = "builtin"]

SpawnInit ==
    /\ ToolInit
    /\ is_subagent = FALSE
    /\ parents = <<>>
    /\ mcp_servers \in {{}, ServerNames}
    /\ agents = 1
    /\ server_procs = started_by(TopAgent, mcp_servers)
    /\ leftover = None

\* a tool call of the running loop that returns without running a child loop
SpawnExecuteTool(name, arguments, env) ==
    LET d == Dispatch(name, arguments, env) IN
    /\ ~d.spawns
    /\ ExecuteTool(name, arguments, [env EXCEPT !.builtin = d.handler.result])
    /\ UNCHANGED <<is_subagent, parents, mcp_servers, agents, server_procs,
                   leftover>>

\* a task call that reaches subagent_callback: _spawn_subagent builds the
\* child Agent with the parent's auto_approve_tools, approval callback and
\* MCP configuration, and runs it; the parent waits inside the call
TaskSpawns(arguments, env) ==
    LET d == Dispatch("task", arguments, env)
        child == spawn_child(Running)
        dec == Decision(agent_name, "task")
    IN
    /\ dispatched < MaxCalls
    /\ d.spawns
    /\ parents' = Append(parents, Running)
    /\ agent_name' = child.agent_name
    /\ is_subagent' = child.is_subagent
    /\ events' = events \cup
          {[kind |-> d.r.trace[i], tool |-> "task", decision |-> dec] :
               i \in 1..Len(d.r.trace)}
    /\ lastCall' = [name |-> "task", arguments |-> arguments, decision |-> dec,
                    trace |-> d.r.trace,
                    answer |-> IF d.r.trace[1] = "approval"
                               THEN Some(env.approve) ELSE None,
                    recorded |-> ""]
    /\ dispatched' = dispatched + 1
    /\ agents' = agents + 1
    /\ server_procs' = server_procs \cup started_by(agents + 1, mcp_servers)
    /\ UNCHANGED <<auto_approve_tools, has_callback, mcp_tools, toolResult,
                   mcp_servers, leftover>>

\* child_agent.run returns or raises: the parent's task call ends
ChildEnds(outcome) ==
    /\ parents # <<>>
    /\ agent_name' = parents[Len(parents)].agent_name
    /\ is_subagent' = parents[Len(parents)].is_subagent
    /\ parents' = SubSeq(parents, 1, Len(parents) - 1)
    /\ toolResult' = task_result(outcome)
    /\ lastCall' = [lastCall EXCEPT !.recorded = result_content(toolResult')]
    /\ UNCHANGED <<auto_approve_tools, has_callback, mcp_tools, events, dispatched,
                   mcp_servers, agents, server_procs, leftover>>

\* Agent.switch_agent, called on the primary Agent between its tool calls
SpawnSwitchAgent(name) ==
    /\ ~is_subagent
    /\ SwitchAgent(name)
    /\ UNCHANGED <<is_subagent, parents, mcp_servers, agents, server_procs,
                   leftover>>

\* Agent.shutdown of the top-level Agent, once its loop is not running
AgentShutdown ==
    /\ parents = <<>>
    /\ leftover = None
    /\ server_procs' = agent_shutdown(server_procs, TopAgent)
    /\ leftover' = Some(server_procs')
    /\ UNCHANGED <<toolVars, is_subagent, parents, mcp_servers, agents>>

SpawnNext ==
    \/ \E n \in SpawnCallNames, a \in TaskArgStrings, env \in Envs :
           SpawnExecuteTool(n, a, env)
    \/ \E a \in TaskArgStrings, env \in Envs : TaskSpawns(a, env)
    \/ \E o \in ChildOutcomes : ChildEnds(o)
    \/ \E n \in AgentNames : SpawnSwitchAgent(n)
    \/ AgentShutdown

----------------------------------------------------------------------------
\* Sub-agent properties

\* C25: a sub-task loop never runs a sub-task: every task call dispatched
\* by an Agent built as a sub-agent yields a failed result and builds no
\* child Agent, so at most one loop runs below the primary loop.
C25_NoNestedSubagent ==
    /\ [](Len(parents) <= 1)
    /\ [](parents # <<>> => is_subagent /\ ~parents[1].is_subagent)
    /\ [][(is_subagent /\ dispatched' = dispatched + 1 /\ lastCall'.name = "task")
          => /\ toolResult'.success = FALSE
             /\ parents' = parents
             /\ is_subagent'
         ]_vars

\* the child of a build agent asks for a sub-task of its own, with a prompt
C25_Witness ==
    /\ Len(parents) = 1 /\ parents[1].agent_name = "build" /\ is_subagent
    /\ dispatched = 2 /\ lastCall.name = "task"
    /\ lastCall.arguments = "{\"prompt\": \"go\"}"
    /\ toolResult.success = FALSE

\* C36: when the top-level Agent's shutdown() returns, no server process
\* started by it or by an Agent it built for a sub-task is running.
C36_NoServerLeftRunning ==
    leftover # None => leftover[1] = {}

----------------------------------------------------------------------------
\* The agent loop (agent.py: Agent.stream, Agent.run, _call_model,
\* _compact_session; skills.py: apply_turn_injections)

MaxTurnBudget == 3       \* largest max_turns of an agent definition explored
MaxHistoryRounds == 19   \* most completed submissions in the initial history

\* Session.needs_compaction(max_messages=100)
MaxMessages == 100

MaxTurnsText == "Agent reached maximum turn limit."
FallbackSummary == "(Automatic compaction - older messages truncated)"
NoSummary == "No summary available."

\* Agent.max_turns is a field of the agent definition: any integer
TurnBudgets == 0..MaxTurnBudget

\* One completed submission of an earlier run of the loop: the user's text,
\* an assistant message with two tool calls, their results, the answer.
LoopRound(r) ==
    LET a == "h" \o ToString(r) \o "a"
        b == "h" \o ToString(r) \o "b"
    IN  << UserMessage("hi"),
           AssistantMessage(None, Some(<<ToolCall(a, "read_file", "{}"),
                                          ToolCall(b, "grep", "{}")>>)),
           ToolMessage(a, "read_file", "out"),
           ToolMessage(b, "grep", "out"),
           AssistantMessage(Some("ans"), None) >>

RECURSIVE LoopHistory(_)
LoopHistory(k) == IF k = 0 THEN <<>> ELSE LoopHistory(k - 1) \o LoopRound(k)

\* Histories the session starts with: a new one, and long ones that put
\* the next submission around the MaxMessages threshold.
HistoryRounds == {0} \cup ((MaxHistoryRounds - 1)..MaxHistoryRounds)

\* What the user types: plain text, or text that mentions the skill "sk"
UserInputs == {"hi", "$sk"}

\* extract_mentions + get_skills_for_mentions + load_skill_content: the
\* skills the text mentions, as the messages to inject
SkillInjections(text) ==
    IF text = "$sk"
    THEN <<SystemMessage("[SKILL: sk @ sk/SKILL.md]\nbody\n[END SKILL]")>>
    ELSE <<>>

IsSkillInjection(m) ==
    m.role = "system" /\ StartsWith(IF IsNone(m.content) THEN "" ELSE m.content[1],
                                    "[SKILL:")

\* the content of the last user message, None when there is none
RECURSIVE LastUserContent(_)
LastUserContent(msgs) ==
    IF msgs = <<>> THEN None
    ELSE IF msgs[Len(msgs)].role = "user" THEN msgs[Len(msgs)].content
    ELSE LastUserContent(SubSeq(msgs, 1, Len(msgs) - 1))

\* SkillsManager.apply_turn_injections: the session's new message list
apply_turn_injections(msgs) ==
    LET kept == SelectSeq(msgs, LAMBDA m : ~IsSkillInjection(m))
        last == LastUserContent(kept)
        injections == IF TruthyStr(last) THEN SkillInjections(last[1]) ELSE <<>>
        insert_at == IF kept # <<>> /\ kept[1].role = "system" THEN 1 ELSE 0
    IN  SubSeq(kept, 1, insert_at) \o injections
            \o SubSeq(kept, insert_at + 1, Len(kept))

\* How the summarization call of _compact_session ends: the backend
\* answers with a text or with no content, or the call raises
SummaryOutcomes ==
    { [kind |-> "content", content |-> Some("S")],
      [kind |-> "content", content |-> None],
      Raise("TimeoutError") }

\* A _compact_session without its try / except
compact_session_NoCatch(msgs, outcome) ==
    IF outcome.kind = "raise"
    THEN [messages |-> msgs, raised |-> Some(outcome.exc)]
    ELSE [messages |-> compact(msgs, IF TruthyStr(outcome.content)
                                     THEN outcome.content[1] ELSE NoSummary),
          raised |-> None]

\* Agent._compact_session: the session's new message list, and the
\* exception that leaves the method, if any
compact_session(msgs, outcome) ==
    IF outcome.kind = "raise"
    THEN IF Caught(outcome.exc)
         THEN [messages |-> compact(msgs, FallbackSummary), raised |-> None]
         ELSE [messages |-> msgs, raised |-> Some(outcome.exc)]
    ELSE [messages |-> compact(msgs, IF TruthyStr(outcome.content)
                                     THEN outcome.content[1] ELSE NoSummary),
          raised |-> None]

\* The main call's response.choices[0].message: its content and the number
\* of its tool calls
ModelResponses ==
    { <<Some("ans"), 0>>, <<None, 0>>, <<None, 1>>, <<Some("look"), 2>> }
ModelCalls(first, n) ==
    [i \in 1..n |-> ToolCall("call" \o ToString(first + i - 1),
                             IF i = 1 THEN "shell" ELSE "read_file", "{}")]

\* What _execute_tool returns to the loop: a shell command may fail
LoopToolResults(tool_call) ==
    { [success |-> TRUE, output |-> "out", error |-> None] }
    \cup (IF tool_call.function.name = "shell"
          THEN { [success |-> FALSE, output |-> "", error |-> Some("boom")] }
          ELSE {})

\* A loop that records each result under the name of the tool, not its id
record_result_ByName(msgs, tool_call, result) ==
    add_tool_result(msgs, tool_call.function.name, tool_call.function.name,
                    result_content(result))

\* stream, lines 173-180: the result of one tool call enters the session
record_result(msgs, tool_call, result) ==
    add_tool_result(msgs, tool_call.id, tool_call.function.name,
                    result_content(result))

\* A loop that takes the tool calls of a response from the back
take_next_Last(calls) ==
    [call |-> calls[Len(calls)], rest |-> SubSeq(calls, 1, Len(calls) - 1)]

\* stream, line 172: for tool_call in message.tool_calls
take_next(calls) == [call |-> Head(calls), rest |-> Tail(calls)]

\* A loop test that allows one turn too many
within_budget_Inclusive(turn, budget) == turn <= budget

\* stream, line 135: while turn_count < self.agent_def.max_turns
within_budget(turn, budget) == turn < budget

TurnResult(response, finished) == [response |-> response, finished |-> finished]

\* run, lines 204-207: the response of the last TurnResult, "" when none
run_return(result) == IF IsNone(result) THEN Some("") ELSE result[1].response

NoMessage == [content |-> None, tool_calls |-> <<>>]

LoopInit ==
    \E k \in HistoryRounds, budget \in TurnBudgets :
        /\ agentMessages = PostInit("SYS", <<>>) \o LoopHistory(k)
        /\ max_turns = budget
        /\ loopPc = "idle"
        /\ stream_turn = 0
        /\ message = NoMessage
        /\ pending = <<>>
        /\ nextId = 1
        /\ lastYield = None
        /\ streamReturn = None
        /\ runResult = None
        /\ endedBy = "none"
        /\ mainCalls = 0
        /\ started = <<>>
        /\ summaryCall = "none"

\* run(user_input) enters stream: lines 132-134
Submit(user_input) ==
    /\ loopPc = "idle"
    /\ agentMessages' = add_user_message(agentMessages, user_input)
    /\ stream_turn' = 0
    /\ mainCalls' = 0
    /\ lastYield' = None
    /\ streamReturn' = None
    /\ runResult' = None
    /\ endedBy' = "none"
    /\ message' = NoMessage
    /\ loopPc' = "test"
    /\ started' = <<>>
    /\ summaryCall' = "none"
    /\ UNCHANGED <<max_turns, pending, nextId>>

\* stream, lines 135-140 and 200: the loop test, then the compaction check
\* with the summarization call ending as `outcome`; when the budget is
\* used up stream returns the fixed text and run returns what its for loop
\* saw last. An exception that leaves _compact_session leaves stream and run.
LoopTest(outcome) ==
    /\ loopPc = "test"
    /\ IF within_budget(stream_turn, max_turns)
       THEN /\ stream_turn' = stream_turn + 1
            /\ IF needs_compaction(agentMessages, MaxMessages)
               THEN LET r == compact_session(agentMessages, outcome) IN
                    /\ agentMessages' = r.messages
                    /\ summaryCall' = IF outcome.kind = "raise"
                                      THEN "raised" ELSE "returned"
                    /\ IF r.raised = None
                       THEN /\ loopPc' = "call"
                            /\ UNCHANGED endedBy
                       ELSE /\ loopPc' = "done"
                            /\ endedBy' = "raised"
               ELSE /\ summaryCall' = "none"
                    /\ loopPc' = "call"
                    /\ UNCHANGED <<agentMessages, endedBy>>
            /\ UNCHANGED <<streamReturn, runResult>>
       ELSE /\ streamReturn' = Some(MaxTurnsText)
            /\ runResult' = run_return(lastYield)
            /\ endedBy' = "exhausted"
            /\ loopPc' = "done"
            /\ UNCHANGED <<stream_turn, agentMessages, summaryCall>>
    /\ UNCHANGED <<max_turns, message, pending, nextId, lastYield, mainCalls,
                   started>>

\* _call_model, line 213: the skill injections for this turn
TurnInjections ==
    /\ loopPc = "call"
    /\ agentMessages' = apply_turn_injections(agentMessages)
    /\ loopPc' = "create"
    /\ UNCHANGED <<max_turns, stream_turn, message, pending, nextId, lastYield,
                   streamReturn, runResult, endedBy, mainCalls, started,
                   summaryCall>>

\* _call_model, lines 214-221, and stream, lines 152-170 and 189-198: the
\* backend is handed the session and answers; the assistant message is
\* recorded; an answer without tool calls ends the loop
ModelReturns(content, n) ==
    /\ loopPc = "create"
    /\ mainCalls' = mainCalls + 1
    /\ LET tool_calls == ModelCalls(nextId, n) IN
        /\ nextId' = nextId + n
        /\ message' = [content |-> content, tool_calls |-> tool_calls]
        /\ IF tool_calls # <<>>
           THEN /\ agentMessages' =
                       add_assistant_message(agentMessages, content, Some(tool_calls))
                /\ pending' = tool_calls
                /\ loopPc' = "tools"
                /\ UNCHANGED <<lastYield, streamReturn, runResult, endedBy>>
           ELSE /\ agentMessages' = add_assistant_message(agentMessages, content, None)
                /\ pending' = <<>>
                /\ lastYield' = Some(TurnResult(content, TRUE))
                /\ streamReturn' = content
                /\ runResult' = run_return(lastYield')
                /\ endedBy' = "finished"
                /\ loopPc' = "done"
    /\ started' = <<>>
    /\ UNCHANGED <<max_turns, stream_turn, summaryCall>>

\* stream, lines 172-173: the loop takes the next tool call of the
\* response and enters _execute_tool
ExecuteToolBegins ==
    /\ loopPc = "tools"
    /\ pending # <<>>
    /\ started' = Append(started, take_next(pending).call.id)
    /\ loopPc' = "exec"
    /\ UNCHANGED <<agentMessages, max_turns, stream_turn, message, pending,
                   nextId, lastYield, streamReturn, runResult, endedBy,
                   mainCalls, summaryCall>>

\* stream, lines 173-188: _execute_tool returns and the result is
\* recorded; after the last call the turn is yielded
ExecuteToolCall(result) ==
    /\ loopPc = "exec"
    /\ pending # <<>>
    /\ agentMessages' = record_result(agentMessages, take_next(pending).call, result)
    /\ pending' = take_next(pending).rest
    /\ IF pending' = <<>>
       THEN /\ lastYield' = Some(TurnResult(message.content, FALSE))
            /\ loopPc' = "test"
       ELSE /\ loopPc' = "tools"
            /\ UNCHANGED lastYield
    /\ UNCHANGED <<max_turns, stream_turn, message, nextId, streamReturn,
                   runResult, endedBy, mainCalls, started, summaryCall>>

LoopStep ==
    \/ \E o \in SummaryOutcomes : LoopTest(o)
    \/ TurnInjections
    \/ \E m \in ModelResponses : ModelReturns(m[1], m[2])
    \/ ExecuteToolBegins
    \/ /\ pending # <<>>
       /\ \E r \in LoopToolResults(take_next(pending).call) : ExecuteToolCall(r)

LoopNext ==
    \/ \E u \in UserInputs : Submit(u)
    \/ LoopStep

----------------------------------------------------------------------------
\* Agent loop properties

\* the ids of the tool calls of message m
CallIds(m) ==
    IF TruthyList(m.tool_calls)
    THEN {m.tool_calls[1][i].id : i \in 1..Len(m.tool_calls[1])}
    ELSE {}

\* the positions of the tool-result messages recorded for an id
ResultsFor(id) ==
    {j \in 1..Len(agentMessages) :
        /\ agentMessages[j].role = "tool"
        /\ agentMessages[j].tool_call_id = Some(id)}

\* the loop is about to call the backend: for a summary or for the next turn
AtBackendCall == loopPc \in {"test", "call", "create"}

\* C11: whenever the loop is about to call the model backend, every tool
\* call recorded in an assistant message of the session has exactly one
\* tool-result message recorded for its id.
C11_OneResultPerCall ==
    AtBackendCall =>
        \A i \in 1..Len(agentMessages) :
            agentMessages[i].role = "assistant" =>
                \A id \in CallIds(agentMessages[i]) :
                    Cardinality(ResultsFor(id)) = 1

\* the backend is called a second time in one submission after a response
\* with two tool calls, the first of which failed
C11_Witness ==
    /\ loopPc = "create" /\ mainCalls = 1 /\ Len(message.tool_calls) = 2
    /\ \E j \in 1..Len(agentMessages) :
           /\ agentMessages[j].role = "tool"
           /\ agentMessages[j].content = Some("Error: boom")
           /\ agentMessages[j].tool_call_id = Some(message.tool_calls[1].id)

\* C12: in every session state handed to the model backend each tool
\* message's tool_call_id is the id of a tool call of an assistant message
\* that precedes it in the list.
C12_ToolResultsFollowTheirCall ==
    loopPc = "create" =>
        \A j \in 1..Len(agentMessages) :
            agentMessages[j].role = "tool" =>
                \E i \in 1..(j - 1) :
                    /\ agentMessages[i].role = "assistant"
                    /\ agentMessages[j].tool_call_id
                           \in {Some(id) : id \in CallIds(agentMessages[i])}

\* C13: one submission makes at most max_turns main backend calls, and once
\* submitted the loop always ends, with a response free of tool calls or
\* with the turn budget used up.
C13_LoopEnds ==
    /\ [](mainCalls <= max_turns)
    /\ [](loopPc = "done" =>
             \/ endedBy = "finished" /\ message.tool_calls = <<>>
             \/ endedBy = "exhausted" /\ mainCalls = max_turns)
    /\ [](loopPc \in {"test", "call", "create", "tools", "exec"}
             => <>(loopPc = "done"))

\* a submission that used its whole budget of MaxTurnBudget turns on tool calls
C13_Witness ==
    /\ loopPc = "done" /\ endedBy = "exhausted"
    /\ max_turns = MaxTurnBudget /\ mainCalls = MaxTurnBudget

\* C14: when the turn budget is used up, both stream() and run() return
\* the fixed maximum-turns text.
C14_MaxTurnsResult ==
    (loopPc = "done" /\ endedBy = "exhausted") =>
        /\ streamReturn = Some(MaxTurnsText)
        /\ runResult = Some(MaxTurnsText)

\* C40: when the loop goes to a main backend call, before the skill
\* injection of the turn, the session holds at most 100 messages; and
\* whenever the pre-call check finds more than 100, compaction has run and
\* left at most 12.
C40_BoundedAtModelCall ==
    /\ [](loopPc = "call" =>
            /\ Len(agentMessages) <= MaxMessages
            /\ summaryCall # "none" => Len(agentMessages) <= KeepRecent + 2)
    /\ [][(loopPc = "test" /\ loopPc' = "call"
              /\ Len(agentMessages) > MaxMessages)
          => /\ summaryCall' # "none"
             /\ Len(agentMessages') <= KeepRecent + 2
         ]_vars

\* the turn before left the list above the threshold with two tool results
\* at its end; compaction ran and the loop goes to its third main call
C40_Witness ==
    /\ loopPc = "call" /\ summaryCall = "returned" /\ mainCalls = 2
    /\ Len(agentMessages) = KeepRecent + 2
    /\ agentMessages[Len(agentMessages)].role = "tool"
    /\ agentMessages[Len(agentMessages) - 1].role = "tool"

\* the number of results of this turn's tool calls the session holds
Recorded == Len(started) - (IF loopPc = "exec" THEN 1 ELSE 0)

\* C23: within one backend turn _execute_tool is entered for the tool
\* calls in the order of the response; when a call starts, the results of
\* all calls before it are in the session; and the session ends with the
\* assistant message that records all the calls, directly followed by the
\* tool results recorded so far, in that same order.
C23_ToolCallsInOrder ==
    (loopPc \in {"tools", "exec"} \/ (loopPc = "test" /\ started # <<>>)) =>
        LET calls == message.tool_calls
            n == Len(agentMessages)
        IN  /\ Len(started) <= Len(calls)
            /\ \A i \in 1..Len(started) : started[i] = calls[i].id
            /\ loopPc = "test" => Len(started) = Len(calls)
            /\ n > Recorded
            /\ agentMessages[n - Recorded]
                   = AssistantMessage(message.content, Some(calls))
            /\ \A i \in 1..Recorded :
                   /\ agentMessages[n - Recorded + i].role = "tool"
                   /\ agentMessages[n - Recorded + i].tool_call_id
                          = Some(calls[i].id)
                   /\ agentMessages[n - Recorded + i].name
                          = Some(calls[i].function.name)

\* the second call of a response starts after the first one failed
C23_Witness ==
    /\ loopPc = "exec" /\ Len(started) = 2 /\ Len(message.tool_calls) = 2
    /\ agentMessages[Len(agentMessages)].content = Some("Error: boom")

\* C24: when needs_compaction() holds at the start of a turn, the turn goes
\* on to the main model call with a compacted session, whatever the
\* summarization call did; when that call raised, the session was compacted
\* with the placeholder summary; and stream() never ends by an exception of
\* the summarization call.
C24_CompactionNeverAborts ==
    /\ [][(/\ loopPc = "test"
           /\ within_budget(stream_turn, max_turns)
           /\ needs_compaction(agentMessages, MaxMessages))
          => /\ loopPc' = "call"
             /\ summaryCall' # "none"
             /\ Len(agentMessages') <= 1 + 1 + KeepRecent
             /\ summaryCall' = "raised"
                    => agentMessages' = compact(agentMessages, FallbackSummary)
         ]_vars
    /\ [](endedBy # "raised")
    /\ [](summaryCall = "raised" /\ loopPc = "call" => <>(loopPc = "create"))

\* the main model call of a turn whose summarization call raised
C24_Witness ==
    /\ loopPc = "create" /\ summaryCall = "raised"
    /\ \E i \in 1..Len(agentMessages) :
           agentMessages[i] = CompactionMessage(FallbackSummary)

----------------------------------------------------------------------------
\* A sub-task inside the parent's task tool call (agent.py: Agent.stream,
\* Agent._spawn_subagent; tools.py: ToolExecutor._execute_task)

MaxNestOps == 2      \* model calls of the parent loop explored
MaxChildTurns == 2   \* max_turns of the sub-agent

\* a Session object: its message list and its usage counters
SessionObject(msgs, u) == [messages |-> msgs, usage |-> u]

\* the parent Agent's Session is the first object
ParentRef == 1

\* the system prompts of the primary agent and of the "subagent" definition
ParentPrompt == "SYS"
SubagentPrompt == "SUB"

\* token counts of the model responses (prompt, completion)
NestTokens == {<<100, 50>>, <<10, 5>>}

\* the task call the parent's model asks for
TaskCallId == "t1"
TaskPrompt == "go"

\* A _spawn_subagent that leaves the child Agent on the parent's Session
child_session_ref_Parent(parent, forked) == parent

\* _spawn_subagent, line 284: child_agent.session = child_session
child_session_ref(parent, forked) == forked

\* the object behind a reference, and an update of it
Messages(ref) == sessionHeap[ref].messages
WithMessages(ref, msgs) ==
    [sessionHeap EXCEPT ![ref] = SessionObject(msgs, @.usage)]
\* stream, lines 146-150 and 166 / 186: record_usage, then the assistant
\* message is appended
AfterModelCall(ref, tokens, content, tool_calls) ==
    [sessionHeap EXCEPT ![ref] =
        SessionObject(add_assistant_message(@.messages, content, tool_calls),
                      UsageAdd(@.usage, tokens[1], tokens[2]))]

NestInit ==
    /\ sessionHeap = <<SessionObject(
                         add_user_message(PostInit(ParentPrompt, <<>>), "do it"),
                         UsageStats(0, 0, 0))>>
    /\ childRef = 0
    /\ nestPc = "parent"
    /\ forkSnap = None
    /\ taskOutcome = None
    /\ childTurns = 0
    /\ nestOps = 0

\* stream of the parent, lines 142-152 and 184-193: a model call that
\* answers in text
ParentAnswers(tokens) ==
    /\ nestPc = "parent"
    /\ nestOps < MaxNestOps
    /\ nestOps' = nestOps + 1
    /\ sessionHeap' = AfterModelCall(ParentRef, tokens, Some("parent says"), None)
    /\ UNCHANGED <<childRef, nestPc, forkSnap, taskOutcome, childTurns>>

\* stream of the parent, lines 142-169: a model call that asks for the
\* task tool; the loop enters _execute_tool
ParentCallsTask(tokens) ==
    /\ nestPc = "parent"
    /\ nestOps < MaxNestOps
    /\ nestOps' = nestOps + 1
    /\ sessionHeap' =
           AfterModelCall(ParentRef, tokens, None,
               Some(<<ToolCall(TaskCallId, "task", "{\"prompt\": \"go\"}")>>))
    /\ nestPc' = "execute"
    /\ UNCHANGED <<childRef, forkSnap, taskOutcome, childTurns>>

\* _spawn_subagent, lines 264-284: the session is forked, the child Agent is
\* built and given the forked session
SpawnBegins ==
    /\ nestPc = "execute"
    /\ LET child == fork(Some(SubagentPrompt), "s2") IN
        /\ sessionHeap' = Append(sessionHeap,
                                 SessionObject(child.messages, UsageStats(0, 0, 0)))
        /\ childRef' = child_session_ref(ParentRef, Len(sessionHeap) + 1)
    /\ forkSnap' = Some(sessionHeap[ParentRef])
    /\ taskOutcome' = None
    /\ childTurns' = 0
    /\ nestPc' = "child_run"
    /\ UNCHANGED nestOps

\* child_agent.run(prompt), line 287: stream, line 132
ChildRunBegins ==
    /\ nestPc = "child_run"
    /\ sessionHeap' = WithMessages(childRef,
                          add_user_message(Messages(childRef), TaskPrompt))
    /\ nestPc' = "child_loop"
    /\ UNCHANGED <<childRef, forkSnap, taskOutcome, childTurns, nestOps>>

\* the child's stream, lines 135-182: a turn with a tool call and its result
ChildToolTurn(tokens) ==
    /\ nestPc = "child_loop"
    /\ childTurns < MaxChildTurns
    /\ childTurns' = childTurns + 1
    /\ LET called == AfterModelCall(childRef, tokens, Some("child works"),
                         Some(<<ToolCall("c1", "shell", "{}")>>))
       IN  sessionHeap' =
               [called EXCEPT ![childRef] =
                   SessionObject(add_tool_result(@.messages, "c1", "shell", "out"),
                                 @.usage)]
    /\ UNCHANGED <<childRef, nestPc, forkSnap, taskOutcome, nestOps>>

\* the child's stream, lines 183-193: the final answer; run returns it
ChildAnswers(tokens) ==
    /\ nestPc = "child_loop"
    /\ childTurns < MaxChildTurns
    /\ childTurns' = childTurns + 1
    /\ sessionHeap' = AfterModelCall(childRef, tokens, Some("child says"), None)
    /\ taskOutcome' = Some([kind |-> "return", text |-> "child says"])
    /\ nestPc' = "child_done"
    /\ UNCHANGED <<childRef, forkSnap, nestOps>>

\* the child's stream, lines 135 and 195: the turn limit ends the loop; run
\* (lines 202-207) returns the response of the last turn, a tool turn
ChildOutOfTurns ==
    /\ nestPc = "child_loop"
    /\ childTurns >= MaxChildTurns
    /\ taskOutcome' = Some([kind |-> "return", text |-> "child works"])
    /\ nestPc' = "child_done"
    /\ UNCHANGED <<sessionHeap, childRef, forkSnap, childTurns, nestOps>>

\* the child's model call raises: run raises, line 290 is not reached and
\* _execute_task returns a failed result (tools.py:669-670)
ChildRaises ==
    /\ nestPc = "child_loop"
    /\ taskOutcome' = Some(Raise("TimeoutError"))
    /\ nestPc' = "returned"
    /\ UNCHANGED <<sessionHeap, childRef, forkSnap, childTurns, nestOps>>

\* _spawn_subagent, lines 290-295: the child's usage is added to the parent's
SubagentMerges ==
    /\ nestPc = "child_done"
    /\ sessionHeap' =
           [sessionHeap EXCEPT ![ParentRef] =
               SessionObject(@.messages,
                   UsageAdd(@.usage, sessionHeap[childRef].usage.prompt_tokens,
                            sessionHeap[childRef].usage.completion_tokens))]
    /\ nestPc' = "returned"
    /\ UNCHANGED <<childRef, forkSnap, taskOutcome, childTurns, nestOps>>

\* stream of the parent, lines 171-180: the result of the task call is
\* appended to the parent's messages
TaskResultRecorded ==
    /\ nestPc = "returned"
    /\ sessionHeap' = WithMessages(ParentRef,
           add_tool_result(Messages(ParentRef), TaskCallId, "task",
                           result_content(task_result(taskOutcome[1]))))
    /\ nestPc' = "recorded"
    /\ UNCHANGED <<childRef, forkSnap, taskOutcome, childTurns, nestOps>>

\* the parent's loop goes on to its next turn
ParentGoesOn ==
    /\ nestPc = "recorded"
    /\ nestPc' = "parent"
    /\ UNCHANGED <<sessionHeap, childRef, forkSnap, taskOutcome, childTurns,
                   nestOps>>

NestNext ==
    \/ \E t \in NestTokens : ParentAnswers(t)
    \/ \E t \in NestTokens : ParentCallsTask(t)
    \/ SpawnBegins
    \/ ChildRunBegins
    \/ \E t \in NestTokens : ChildToolTurn(t)
    \/ \E t \in NestTokens : ChildAnswers(t)
    \/ ChildOutOfTurns
    \/ ChildRaises
    \/ SubagentMerges
    \/ TaskResultRecorded
    \/ ParentGoesOn

----------------------------------------------------------------------------
\* Sub-task properties

\* m is one of msgs
RECURSIVE Occurs(_, _)
Occurs(m, msgs) ==
    IF msgs = <<>> THEN FALSE
    ELSE Head(msgs) = m \/ Occurs(m, Tail(msgs))

\* C34: from the fork until the child's loop has ended the parent's message
\* list and usage counters are what they were at the fork; the parent's
\* usage changes only when the child's run has returned, by the child's
\* counts; and once the task call's result is recorded the parent's list
\* is the list at the fork plus the one tool message of the task call,
\* with none of the child's messages in it.
C34_SubtaskLeavesParentAlone ==
    /\ nestPc \in {"child_run", "child_loop", "child_done"} =>
           sessionHeap[ParentRef] = forkSnap[1]
    /\ nestPc = "returned" =>
           /\ Messages(ParentRef) = forkSnap[1].messages
           /\ sessionHeap[ParentRef].usage =
                  IF taskOutcome[1].kind = "raise" THEN forkSnap[1].usage
                  ELSE UsageAdd(forkSnap[1].usage,
                                sessionHeap[childRef].usage.prompt_tokens,
                                sessionHeap[childRef].usage.completion_tokens)
    /\ nestPc = "recorded" =>
           /\ Messages(ParentRef) =
                  Append(forkSnap[1].messages,
                         ToolMessage(TaskCallId, "task",
                             result_content(task_result(taskOutcome[1]))))
           /\ \A i \in 1..Len(Messages(childRef)) :
                  ~Occurs(Messages(childRef)[i], Messages(ParentRef))

\* a child that made a tool turn and then answered has returned; its usage
\* is in the parent's counters and its answer is the parent's tool message
C34_Witness ==
    /\ nestPc = "recorded"
    /\ Len(Messages(childRef)) = 5
    /\ taskOutcome = Some([kind |-> "return", text |-> "child says"])
    /\ sessionHeap[childRef].usage = UsageStats(110, 55, 165)
    /\ sessionHeap[ParentRef].usage = UsageStats(120, 60, 180)
    /\ Messages(ParentRef)[Len(Messages(ParentRef))] =
           ToolMessage(TaskCallId, "task", "child says")

----------------------------------------------------------------------------
\* MCP server lifecycle (mcp_client.py: MCPServer.start / initialize /
\* discover_tools / call_tool / shutdown, MCPManager.start_all / shutdown_all)

MaxServers == 2      \* servers in the manager's configuration
MaxMcpOps == 5       \* start / call_tool / shutdown calls explored on one server

\* MCPManager.servers, in configuration order
Servers == 1..MaxServers

\* subprocess.Popen.poll() is None: the process was started and has not
\* been seen to exit
poll_is_none(p) == p \in {"running", "killed"}

\* How a write to process.stdin can end: it succeeds, or the pipe is broken
\* (BrokenPipeError on POSIX, OSError EINVAL on Windows)
WriteOutcomes == {"ok", "BrokenPipeError", "OSError"}

\* How _send can end for a process in state p. Without a process the
\* assert fails; the write can fail; a written request is answered or times
\* out, and only a running server answers.
SendEnds(p) ==
    IF p = "none" THEN {"AssertionError"}
    ELSE {"TimeoutError", "BrokenPipeError", "OSError"}
         \cup (IF p = "running" THEN {"response"} ELSE {})

\* _send wrote its request: it ended with a response or by timing out
Wrote(sendEnd) == sendEnd \in {"response", "TimeoutError"}

\* The shapes of a tools/call response: a proper result, an error response
\* without a result, a result that is not an object, a content block that
\* is not an object
CallShapes == {"result", "error", "result_not_object", "block_not_object"}

ProperResult ==
    [kind |-> "response",
     msg |-> [jsonrpc |-> "2.0", id |-> 1,
              result |-> [content |-> <<[type |-> "text", text |-> "hi"]>>]]]
ErrorResponse ==
    [kind |-> "response",
     msg |-> [jsonrpc |-> "2.0", id |-> 1, error |-> [code |-> 1]]]

\* A call_tool whose handler catches what shutdown() catches
server_call_tool_CatchSome(sendEnd, shape) ==
    LET body ==
            IF sendEnd # "response" THEN Raise(sendEnd)
            ELSE CASE shape = "result" ->
                        [kind |-> "return", value |-> call_tool(ProperResult)]
                   [] shape = "error" ->
                        [kind |-> "return", value |-> call_tool(ErrorResponse)]
                   [] OTHER -> Raise("AttributeError")
    IN  IF body.kind = "raise" /\ body.exc \in {"TimeoutError", "BrokenPipeError"}
        THEN [kind |-> "return", value |-> Failed(body.text)]
        ELSE body

\* MCPServer.call_tool, lines 157-167: the try body, then "except Exception"
server_call_tool(sendEnd, shape) ==
    LET body ==
            IF sendEnd # "response" THEN Raise(sendEnd)
            ELSE CASE shape = "result" ->
                        [kind |-> "return", value |-> call_tool(ProperResult)]
                   [] shape = "error" ->
                        [kind |-> "return", value |-> call_tool(ErrorResponse)]
                   [] OTHER -> Raise("AttributeError")
    IN  IF body.kind = "raise" /\ Caught(body.exc)
        THEN [kind |-> "return", value |-> Failed(body.text)]
        ELSE body

\* What the environment does during one shutdown(): how the shutdown RPC
\* ends, how the write of the exit notification ends, and whether the
\* process exits within the wait
ShutdownEnvs(p) ==
    [rpc : SendEnds(p), exit : WriteOutcomes, wait : {"exits", "TimeoutExpired"}]

\* A shutdown() that does not look at poll()
shutdown_NoPoll(p, env) ==
    IF p = "none"
    THEN [proc |-> p, sent |-> <<>>, signals |-> <<>>, raised |-> None]
    ELSE IF env.rpc \notin {"response", "TimeoutError", "BrokenPipeError"}
    THEN [proc |-> p, sent |-> <<>>, signals |-> <<>>, raised |-> Some(env.rpc)]
    ELSE [proc |-> IF env.wait = "exits" THEN "exited" ELSE "killed",
          sent |-> (IF Wrote(env.rpc) THEN <<"shutdown">> ELSE <<>>)
                       \o (IF env.exit = "ok" THEN <<"exit">> ELSE <<>>),
          signals |-> <<"terminate">>
                       \o (IF env.wait = "exits" THEN <<>> ELSE <<"kill">>),
          raised |-> None]

\* MCPServer.shutdown, lines 169-187: the new process state, the messages
\* written, the signals sent and the exception that escapes, if any
shutdown(p, env) ==
    IF ~poll_is_none(p)
    THEN [proc |-> p, sent |-> <<>>, signals |-> <<>>, raised |-> None]
    ELSE IF env.rpc \notin {"response", "TimeoutError", "BrokenPipeError"}
    THEN \* lines 172-175: only TimeoutError and BrokenPipeError are caught
         [proc |-> p, sent |-> <<>>, signals |-> <<>>, raised |-> Some(env.rpc)]
    ELSE [proc |-> IF env.wait = "exits" THEN "exited" ELSE "killed",
          sent |-> (IF Wrote(env.rpc) THEN <<"shutdown">> ELSE <<>>)
                       \o (IF env.exit = "ok" THEN <<"exit">> ELSE <<>>),
          signals |-> <<"terminate">>
                       \o (IF env.wait = "exits" THEN <<>> ELSE <<"kill">>),
          raised |-> None]

\* The tools arrays of tools/list results: entries with a name, and one
\* entry without
ToolLists ==
    { <<>>,
      <<[name |-> "x"]>>,
      <<[name |-> "x"], [name |-> "y"]>>,
      <<[name |-> "y"], [description |-> "d"], [name |-> "x"]>> }

\* the names of the entries before the first one without a name
RECURSIVE NamedPrefix(_)
NamedPrefix(list) ==
    IF list = <<>> \/ "name" \notin DOMAIN Head(list) THEN <<>>
    ELSE <<Head(list).name>> \o NamedPrefix(Tail(list))

\* MCPServer.discover_tools, lines 143-153, given how _send ends: the new
\* self.tools and the exception raised, if any
discover_tools(tools, sendEnd, list) ==
    IF sendEnd # "response"
    THEN [tools |-> tools, raised |-> Some(sendEnd)]
    ELSE [tools |-> NamedPrefix(list),
          raised |-> IF Len(NamedPrefix(list)) = Len(list) THEN None
                     ELSE Some("KeyError")]

\* The shapes of a response to the initialize request: a result, a
\* JSON-RPC error object in place of the result, and an object with
\* neither
InitializeShapes == {"result", "error", "no_result"}

\* What the environment does while one server is started. A server that
\* answers initialize with a result is followed through every way the
\* rest of the start can go; one that answers with an error or without a
\* result is a server that then answers tools/list.
StartEnvs ==
    {[start |-> "FileNotFoundError", initialize |-> "-", shape |-> "-",
      notify |-> "-", list |-> "-", tools |-> <<>>]}
    \cup {[start |-> "ok", initialize |-> e, shape |-> "-", notify |-> "-",
           list |-> "-", tools |-> <<>>] : e \in {"TimeoutError", "BrokenPipeError"}}
    \cup {[start |-> "ok", initialize |-> "response", shape |-> "result",
           notify |-> "BrokenPipeError", list |-> "-", tools |-> <<>>]}
    \cup {[start |-> "ok", initialize |-> "response", shape |-> "result",
           notify |-> "ok", list |-> "TimeoutError", tools |-> <<>>]}
    \cup {[start |-> "ok", initialize |-> "response", shape |-> "result",
           notify |-> "ok", list |-> "response", tools |-> l] : l \in ToolLists}
    \cup {[start |-> "ok", initialize |-> "response", shape |-> h,
           notify |-> "ok", list |-> "response", tools |-> <<[name |-> "x"]>>] :
               h \in InitializeShapes \ {"result"}}

\* how the initialize request of a start under env ended: the exception
\* _send raised, or the shape of the response it returned
Handshake(env) ==
    IF env.start # "ok" THEN "-"
    ELSE IF env.initialize = "response" THEN env.shape
    ELSE env.initialize

\* start(), initialize() and discover_tools() of one server, lines 220-222:
\* the process state, the messages written, self.tools and the exception
\* raised, if any. initialize() (lines 130-139) binds the response to resp
\* and does not read it.
start_server(tools, env) ==
    IF env.start # "ok"
    THEN [proc |-> "none", sent |-> <<>>, tools |-> tools, raised |-> Some(env.start)]
    ELSE IF env.initialize # "response"
    THEN [proc |-> "running",
          sent |-> IF Wrote(env.initialize) THEN <<"initialize">> ELSE <<>>,
          tools |-> tools, raised |-> Some(env.initialize)]
    ELSE IF env.notify # "ok"
    THEN [proc |-> "running", sent |-> <<"initialize">>, tools |-> tools,
          raised |-> Some(env.notify)]
    ELSE LET d == discover_tools(tools, env.list, env.tools) IN
         [proc |-> "running",
          sent |-> <<"initialize", "notifications/initialized">>
                       \o (IF Wrote(env.list) THEN <<"tools/list">> ELSE <<>>),
          tools |-> d.tools, raised |-> d.raised]

\* MCPManager.get_tool_definitions, lines 241-252: the names of the
\* definitions, from server.tools of the first n servers in order
RECURSIVE get_tool_definitions(_, _)
get_tool_definitions(tools, n) ==
    IF n = 0 THEN <<>> ELSE get_tool_definitions(tools, n - 1) \o tools[n]

\* MCPManager.has_tool
has_tool(map, tool_name) == tool_name \in DOMAIN map

\* dict update: every name of the list is routed to the server
Route(map, names, server) ==
    [t \in DOMAIN map \cup {names[i] : i \in 1..Len(names)} |->
        IF \E i \in 1..Len(names) : names[i] = t THEN server ELSE map[t]]

\* A start_all that routes whatever tools the server object holds
route_started_Always(map, server, r) == Route(map, r.tools, server)

\* start_all, lines 219-227: the routing table after one server's turn; a
\* server that raised is skipped
route_started(map, server, r) ==
    IF r.raised = None THEN Route(map, r.tools, server) ELSE map

McpOp(n, op, server, before, cause, raised, result) ==
    [n |-> n, op |-> op, server |-> server, before |-> before,
     cause |-> cause, raised |-> raised, result |-> result]

McpInit ==
    /\ proc = [s \in Servers |-> "none"]
    /\ server_tools = [s \in Servers |-> <<>>]
    /\ tool_map = EmptyDict
    /\ mgrPc = "new"
    /\ mgrIdx = 0
    /\ sent = [s \in Servers |-> <<>>]
    /\ signals = [s \in Servers |-> <<>>]
    /\ mcpLast = McpOp(0, "init", 0, "none", "", None, None)
    /\ failedStart = {}
    /\ offered = [s \in Servers |-> <<>>]
    /\ handshake = [server |-> 0, how |-> "-"]
    /\ attempted = {}
    /\ callStates = {}
    /\ mcpOps = 0

\* MCPManager.start_all is entered
StartAllBegins ==
    /\ mgrPc = "new"
    /\ mgrPc' = "start_all"
    /\ mgrIdx' = 1
    /\ UNCHANGED <<proc, server_tools, tool_map, sent, signals, mcpLast,
                   failedStart, offered, handshake, attempted, callStates,
                   mcpOps>>

\* start_all, lines 218-227: one iteration of the loop over the servers;
\* "except Exception" keeps the loop going
StartOne(env) ==
    /\ mgrPc = "start_all"
    /\ mgrIdx \in Servers
    /\ LET s == mgrIdx
           r == start_server(server_tools[s], env)
           escapes == r.raised # None /\ ~Caught(r.raised[1])
       IN  /\ proc' = [proc EXCEPT ![s] = r.proc]
           /\ sent' = [sent EXCEPT ![s] = @ \o r.sent]
           /\ server_tools' = [server_tools EXCEPT ![s] = r.tools]
           /\ tool_map' = route_started(tool_map, s, r)
           /\ failedStart' = IF r.raised = None THEN failedStart
                             ELSE failedStart \cup {s}
           /\ offered' = [offered EXCEPT ![s] = r.tools]
           /\ handshake' = [server |-> s, how |-> Handshake(env)]
           /\ mcpLast' = McpOp(mcpLast.n + 1, "start", s, proc[s],
                               IF r.raised = None THEN "" ELSE r.raised[1],
                               IF escapes THEN r.raised ELSE None, None)
           /\ mgrPc' = IF escapes THEN "raised" ELSE "start_all"
           /\ mgrIdx' = IF escapes THEN 0 ELSE mgrIdx + 1
    /\ UNCHANGED <<signals, attempted, callStates, mcpOps>>

\* start_all returns, line 228
StartAllReturns ==
    /\ mgrPc = "start_all"
    /\ mgrIdx \notin Servers
    /\ mgrPc' = "ready"
    /\ mgrIdx' = 0
    /\ UNCHANGED <<proc, server_tools, tool_map, sent, signals, mcpLast,
                   failedStart, offered, handshake, attempted, callStates,
                   mcpOps>>

\* no manager call is in progress
ManagerAtRest == mgrPc \in {"new", "ready", "stopped", "raised"}

\* A client of one MCPServer (as start_all is, lines 220-222): start(),
\* initialize() and discover_tools() on a server without a process
ServerStart(s, env) ==
    /\ mgrPc = "new"
    /\ proc[s] = "none"
    /\ mcpOps < MaxMcpOps
    /\ mcpOps' = mcpOps + 1
    /\ LET r == start_server(server_tools[s], env) IN
        /\ proc' = [proc EXCEPT ![s] = r.proc]
        /\ sent' = [sent EXCEPT ![s] = @ \o r.sent]
        /\ server_tools' = [server_tools EXCEPT ![s] = r.tools]
        /\ mcpLast' = McpOp(mcpLast.n + 1, "start", s, proc[s],
                            IF r.raised = None THEN "" ELSE r.raised[1],
                            r.raised, None)
    /\ handshake' = [server |-> s, how |-> Handshake(env)]
    /\ UNCHANGED <<tool_map, mgrPc, mgrIdx, signals, failedStart, offered,
                   attempted, callStates>>

\* MCPServer.call_tool on server s
McpCallTool(s, sendEnd, shape) ==
    /\ ManagerAtRest
    /\ mcpOps < MaxMcpOps
    /\ mcpOps' = mcpOps + 1
    /\ sendEnd \in SendEnds(proc[s])
    /\ LET r == server_call_tool(sendEnd, shape) IN
        /\ mcpLast' = McpOp(mcpLast.n + 1, "call_tool", s, proc[s],
                            IF sendEnd = "response" THEN shape ELSE sendEnd,
                            IF r.kind = "raise" THEN Some(r.exc) ELSE None,
                            IF r.kind = "raise" THEN None ELSE Some(r.value))
        /\ sent' = [sent EXCEPT ![s] =
                       IF Wrote(sendEnd) THEN Append(@, "tools/call") ELSE @]
    /\ callStates' = callStates \cup {proc[s]}
    /\ UNCHANGED <<proc, server_tools, tool_map, mgrPc, mgrIdx, signals,
                   failedStart, offered, handshake, attempted>>

\* the effects of one shutdown() on server s
DoShutdown(s, env) ==
    LET r == shutdown(proc[s], env) IN
        /\ proc' = [proc EXCEPT ![s] = r.proc]
        /\ sent' = [sent EXCEPT ![s] = @ \o r.sent]
        /\ signals' = [signals EXCEPT ![s] = @ \o r.signals]
        /\ mcpLast' = McpOp(mcpLast.n + 1, "shutdown", s, proc[s], env.rpc,
                            r.raised, None)

\* MCPServer.shutdown on server s
McpShutdown(s, env) ==
    /\ ManagerAtRest
    /\ mcpOps < MaxMcpOps
    /\ mcpOps' = mcpOps + 1
    /\ DoShutdown(s, env)
    /\ UNCHANGED <<server_tools, tool_map, mgrPc, mgrIdx, failedStart, offered,
                   handshake, attempted, callStates>>

\* MCPManager.shutdown_all is entered
ShutdownAllBegins ==
    /\ mgrPc \in {"new", "ready"}
    /\ mgrPc' = "shutdown_all"
    /\ mgrIdx' = 1
    /\ UNCHANGED <<proc, server_tools, tool_map, sent, signals, mcpLast,
                   failedStart, offered, handshake, attempted, callStates,
                   mcpOps>>

\* shutdown_all, lines 256-257: one iteration; an exception from shutdown()
\* leaves the loop and shutdown_all
ShutdownOne(env) ==
    /\ mgrPc = "shutdown_all"
    /\ mgrIdx \in Servers
    /\ DoShutdown(mgrIdx, env)
    /\ attempted' = attempted \cup {mgrIdx}
    /\ IF shutdown(proc[mgrIdx], env).raised = None
       THEN /\ mgrIdx' = mgrIdx + 1
            /\ mgrPc' = "shutdown_all"
       ELSE /\ mgrIdx' = 0
            /\ mgrPc' = "raised"
    /\ UNCHANGED <<server_tools, tool_map, failedStart, offered, handshake,
                   callStates, mcpOps>>

\* shutdown_all returns
ShutdownAllReturns ==
    /\ mgrPc = "shutdown_all"
    /\ mgrIdx \notin Servers
    /\ mgrPc' = "stopped"
    /\ mgrIdx' = 0
    /\ UNCHANGED <<proc, server_tools, tool_map, sent, signals, mcpLast,
                   failedStart, offered, handshake, attempted, callStates,
                   mcpOps>>

\* The server process ends by itself, or a killed one is gone
ProcessExits(s) ==
    /\ ManagerAtRest
    /\ poll_is_none(proc[s])
    /\ proc' = [proc EXCEPT ![s] = "exited"]
    /\ UNCHANGED <<server_tools, tool_map, mgrPc, mgrIdx, sent, signals, mcpLast,
                   failedStart, offered, handshake, attempted, callStates,
                   mcpOps>>

\* One MCPServer and its client
ServerNext ==
    \/ \E env \in StartEnvs : ServerStart(1, env)
    \/ \E e \in SendEnds(proc[1]), shape \in CallShapes : McpCallTool(1, e, shape)
    \/ \E env \in ShutdownEnvs(proc[1]) : McpShutdown(1, env)
    \/ ProcessExits(1)

\* The MCPManager
McpNext ==
    \/ StartAllBegins
    \/ \E env \in StartEnvs : StartOne(env)
    \/ StartAllReturns
    \/ ShutdownAllBegins
    \/ /\ mgrIdx \in Servers
       /\ \E env \in ShutdownEnvs(proc[mgrIdx]) : ShutdownOne(env)
    \/ ShutdownAllReturns
    \/ \E s \in Servers : ProcessExits(s)

----------------------------------------------------------------------------
\* MCP lifecycle properties

\* C15: MCPServer.call_tool never raises; when _send fails or the response
\* is malformed it returns a failed ToolResult whose error is the text of
\* the exception, whatever state the server process is in.
C15_CallToolNeverRaises ==
    mcpLast.op = "call_tool" =>
        /\ mcpLast.raised = None
        /\ mcpLast.result # None
        /\ mcpLast.cause \in ExceptionClasses =>
               mcpLast.result[1] = Failed(ExcText(mcpLast.cause))
        /\ mcpLast.cause \in {"result_not_object", "block_not_object"} =>
               mcpLast.result[1] = Failed(ExcText("AttributeError"))
        /\ mcpLast.before # "running" => ~mcpLast.result[1].success

\* call_tool was called before start, on a running server and after
\* shutdown, and the last call found the pipe broken
C15_Witness ==
    /\ mcpLast.op = "call_tool" /\ mcpLast.before = "exited"
    /\ callStates = {"none", "running", "exited"}
    /\ "terminate" \in {signals[mcpLast.server][i] :
                            i \in 1..Len(signals[mcpLast.server])}
    /\ mcpLast.result = Some(Failed("[Errno 32] Broken pipe"))

\* C29: a failure of an external tool reaches the caller of call_tool as
\* a failed ToolResult and never as an exception: so when _send raises,
\* when the response is malformed, and when the response carries a
\* JSON-RPC error object in place of a result.
C29_ToolFailuresAreFailedResults ==
    (mcpLast.op = "call_tool" /\ mcpLast.cause # "result") =>
        /\ mcpLast.raised = None
        /\ mcpLast.result # None
        /\ mcpLast.result[1].success = FALSE

\* the messages written to the stdin of server s
Sent(s) == {sent[s][i] : i \in 1..Len(sent[s])}

\* C31: a server whose initialize request timed out, or was answered by an
\* error response or by a response without a result, is sent neither
\* notifications/initialized nor tools/list, and none of its tools is
\* routed.
C31_InitializeNeedsGoodResponse ==
    handshake.how \notin {"-", "result"} =>
        /\ "notifications/initialized" \notin Sent(handshake.server)
        /\ "tools/list" \notin Sent(handshake.server)
        /\ \A t \in DOMAIN tool_map : tool_map[t] # handshake.server

\* C35: once start_all() has returned, every tool get_tool_definitions()
\* lists is a tool of a server whose discover_tools() succeeded, and a name
\* is listed if and only if has_tool(name) is true.
C35_DefinitionsMatchRouting ==
    mgrPc = "ready" =>
        LET defs == get_tool_definitions(server_tools, MaxServers)
            listed == {defs[i] : i \in 1..Len(defs)}
        IN  /\ \A s \in failedStart : server_tools[s] = <<>>
            /\ \A name \in listed \cup DOMAIN tool_map :
                   name \in listed <=> has_tool(tool_map, name)

\* C16: shutdown() never raises, and on a process that has not exited it
\* always goes on to terminate it.
C16_ShutdownNeverRaises ==
    mcpLast.op = "shutdown" =>
        /\ mcpLast.raised = None
        /\ poll_is_none(mcpLast.before) =>
               \E i \in 1..Len(signals[mcpLast.server]) :
                   signals[mcpLast.server][i] = "terminate"

\* C17: a shutdown() of a server that was never started or has exited
\* writes no message, sends no signal, raises nothing and leaves the
\* process state as it is.
C17_ShutdownIdempotent ==
    [][(mcpLast'.op = "shutdown" /\ mcpLast'.n # mcpLast.n
            /\ proc[mcpLast'.server] \in {"none", "exited"})
        => /\ proc' = proc
           /\ sent' = sent
           /\ signals' = signals
           /\ mcpLast'.raised = None
      ]_vars

\* a second shutdown() of a server that the first one terminated
C17_Witness ==
    /\ mcpLast.op = "shutdown" /\ mcpLast.before = "exited"
    /\ signals[mcpLast.server] = <<"terminate">>
    /\ sent[mcpLast.server] =
           <<"initialize", "notifications/initialized", "tools/list",
             "shutdown", "exit">>

\* C18: when shutdown_all() is over, shutdown() has been attempted on every
\* configured server.
C18_ShutdownAllReachesAll ==
    mgrPc \in {"stopped", "raised"} => attempted = Servers

\* C19: no failure of a server makes start_all() raise or stop; after it
\* every server that did not fail has a process and all its tools are
\* routed to a server that did not fail and offers the tool, and no tool
\* is routed to a failed server.
C19_FailedServerSkipped ==
    /\ mcpLast.op = "start" => mcpLast.raised = None
    /\ (mgrPc = "start_all" /\ mcpLast.op = "start") => mgrIdx = mcpLast.server + 1
    /\ mgrPc = "ready" =>
        /\ \A s \in Servers \ failedStart :
            /\ proc[s] # "none"
            /\ \A i \in 1..Len(offered[s]) :
                /\ offered[s][i] \in DOMAIN tool_map
                /\ tool_map[offered[s][i]] \notin failedStart
                /\ \E j \in 1..Len(offered[tool_map[offered[s][i]]]) :
                       offered[tool_map[offered[s][i]]][j] = offered[s][i]
        /\ \A t \in DOMAIN tool_map : tool_map[t] \notin failedStart

\* the first server failed in discover_tools after taking a tool into its
\* list, the last one started and its tools are routed
C19_Witness ==
    /\ mgrPc = "ready"
    /\ failedStart = {1}
    /\ server_tools[1] = <<"y">>
    /\ DOMAIN tool_map = {"x", "y"}
    /\ \A t \in DOMAIN tool_map : tool_map[t] = MaxServers

----------------------------------------------------------------------------
\* The response correlation table under its two threads (mcp_client.py:
\* _read_stdout line 107, _send lines 123-124). _response_buf is a plain
\* dict and MCPServer._lock is held only around the write to stdin; what
\* keeps the threads apart is that each dict operation (store, membership
\* test, pop) is one call into the interpreter, which runs one thread at a
\* time inside such a call.

MaxIds == 2          \* requests the caller thread makes
MaxTableOps == 3     \* responses the reader thread stores

Threads == {"reader", "caller"}

\* An interpreter that lets any thread into a dict operation at any time
interpreter_free_Always(holder) == TRUE

\* a thread can start a dict operation: no thread is inside one
interpreter_free(holder) == holder = "none"

TableInit ==
    /\ response_table = {}
    /\ interp = "none"
    /\ inTable = {}
    /\ tPc = [t \in Threads |-> "idle"]
    /\ tReq = 0
    /\ rId = 0
    /\ tStores = 0

\* _send, lines 114-121: a new request id; the request is written under _lock
CallerBegin ==
    /\ tPc["caller"] = "idle"
    /\ tReq < MaxIds
    /\ tReq' = tReq + 1
    /\ tPc' = [tPc EXCEPT !["caller"] = "poll"]
    /\ UNCHANGED <<response_table, interp, inTable, rId, tStores>>

\* _send, line 123: req_id in self._response_buf, entered
CallerTestEnter ==
    /\ tPc["caller"] = "poll"
    /\ interpreter_free(interp)
    /\ interp' = "caller"
    /\ inTable' = inTable \cup {"caller"}
    /\ tPc' = [tPc EXCEPT !["caller"] = "testing"]
    /\ UNCHANGED <<response_table, tReq, rId, tStores>>

\* _send, line 123: the membership test is done
CallerTestLeave ==
    /\ tPc["caller"] = "testing"
    /\ interp' = "none"
    /\ inTable' = inTable \ {"caller"}
    /\ tPc' = [tPc EXCEPT !["caller"] =
                  IF tReq \in response_table THEN "found" ELSE "sleep"]
    /\ UNCHANGED <<response_table, tReq, rId, tStores>>

\* _send, line 124: self._response_buf.pop(req_id), entered
CallerPopEnter ==
    /\ tPc["caller"] = "found"
    /\ interpreter_free(interp)
    /\ interp' = "caller"
    /\ inTable' = inTable \cup {"caller"}
    /\ tPc' = [tPc EXCEPT !["caller"] = "popping"]
    /\ UNCHANGED <<response_table, tReq, rId, tStores>>

\* _send, line 124: the pop is done; a missing key raises KeyError
CallerPopLeave ==
    /\ tPc["caller"] = "popping"
    /\ interp' = "none"
    /\ inTable' = inTable \ {"caller"}
    /\ response_table' = response_table \ {tReq}
    /\ tPc' = [tPc EXCEPT !["caller"] =
                  IF tReq \in response_table THEN "idle" ELSE "KeyError"]
    /\ UNCHANGED <<tReq, rId, tStores>>

\* _send, lines 125, 122 and 126: the sleep ends and the loop goes on, or
\* the deadline has passed and _send raises TimeoutError
CallerSleep(expired) ==
    /\ tPc["caller"] = "sleep"
    /\ tPc' = [tPc EXCEPT !["caller"] = IF expired THEN "idle" ELSE "poll"]
    /\ UNCHANGED <<response_table, interp, inTable, tReq, rId, tStores>>

\* _read_stdout, line 107: self._response_buf[msg_id] = msg, entered; the
\* server answers a request, or repeats an answer
ReaderEnter(id) ==
    /\ tPc["reader"] = "idle"
    /\ tStores < MaxTableOps
    /\ interpreter_free(interp)
    /\ interp' = "reader"
    /\ inTable' = inTable \cup {"reader"}
    /\ rId' = id
    /\ tStores' = tStores + 1
    /\ tPc' = [tPc EXCEPT !["reader"] = "storing"]
    /\ UNCHANGED <<response_table, tReq>>

\* _read_stdout, line 107: the store is done
ReaderLeave ==
    /\ tPc["reader"] = "storing"
    /\ interp' = "none"
    /\ inTable' = inTable \ {"reader"}
    /\ response_table' = response_table \cup {rId}
    /\ tPc' = [tPc EXCEPT !["reader"] = "idle"]
    /\ UNCHANGED <<tReq, rId, tStores>>

TableNext ==
    \/ CallerBegin
    \/ CallerTestEnter
    \/ CallerTestLeave
    \/ CallerPopEnter
    \/ CallerPopLeave
    \/ \E expired \in BOOLEAN : CallerSleep(expired)
    \/ \E id \in 1..tReq : ReaderEnter(id)
    \/ ReaderLeave

----------------------------------------------------------------------------
\* Correlation table properties

----------------------------------------------------------------------------
\* The reader thread (mcp_client.py: MCPServer._read_stdout)

MaxLines == 3        \* lines the server writes to its stdout

\* json.loads of a line: a JSON value with its type, or JSONDecodeError
JsonError == [type |-> "JSONDecodeError", fields |-> EmptyDict]
JsonValue(type, fields) == [type |-> type, fields |-> fields]
ParseLine(line) ==
    CASE line = "{\"jsonrpc\": \"2.0\", \"id\": 1, \"result\": {}}" ->
             JsonValue("object", [jsonrpc |-> "2.0", id |-> 1, result |-> "{}"])
      [] line = "{\"jsonrpc\": \"2.0\", \"id\": 2, \"result\": {}}" ->
             JsonValue("object", [jsonrpc |-> "2.0", id |-> 2, result |-> "{}"])
      [] line = "{\"jsonrpc\": \"2.0\", \"method\": \"log\"}" ->
             JsonValue("object", [jsonrpc |-> "2.0", method |-> "log"])
      [] line = "{\"id\": 0}" -> JsonValue("object", [id |-> 0])
      [] line = "[1, 2]" -> JsonValue("array", EmptyDict)
      [] line = "7" -> JsonValue("number", EmptyDict)
      [] OTHER -> JsonError

\* the lines a server can write: two responses, a notification, an object
\* with a falsy id, a JSON array, a JSON number, text that is not JSON and
\* a blank line
ServerLines ==
    { "{\"jsonrpc\": \"2.0\", \"id\": 1, \"result\": {}}",
      "{\"jsonrpc\": \"2.0\", \"id\": 2, \"result\": {}}",
      "{\"jsonrpc\": \"2.0\", \"method\": \"log\"}",
      "{\"id\": 0}", "[1, 2]", "7", "starting up", " " }

\* the line is a response with a usable id
IsResponse(line) ==
    /\ ParseLine(line).type = "object"
    /\ "id" \in DOMAIN ParseLine(line).fields
    /\ ParseLine(line).fields.id # 0

\* _read_stdout, lines 100-109, for one line: the id the message is stored
\* under, if any, and the exception that leaves the loop, if any. Only
\* JSONDecodeError is caught; msg.get on a value that is not an object
\* raises AttributeError.
read_line(line) ==
    IF Strip(line) = "" THEN [store |-> None, raised |-> None]
    ELSE LET msg == ParseLine(Strip(line)) IN
         IF msg.type = "JSONDecodeError" THEN [store |-> None, raised |-> None]
         ELSE IF msg.type # "object"
         THEN [store |-> None, raised |-> Some("AttributeError")]
         ELSE IF "id" \in DOMAIN msg.fields /\ msg.fields.id # 0
         THEN [store |-> Some(msg.fields.id), raised |-> None]
         ELSE [store |-> None, raised |-> None]

ReaderInit ==
    /\ stdout_lines \in UNION {[1..n -> ServerLines] : n \in 0..MaxLines}
    /\ lineIdx = 1
    /\ readerPc = "reading"
    /\ reader_buf = {}

\* _read_stdout, lines 99-109: the loop takes the next line
ReadLine ==
    /\ readerPc = "reading"
    /\ lineIdx <= Len(stdout_lines)
    /\ LET r == read_line(stdout_lines[lineIdx]) IN
        /\ reader_buf' = IF r.store = None THEN reader_buf
                         ELSE reader_buf \cup {r.store[1]}
        /\ readerPc' = IF r.raised = None THEN "reading" ELSE "dead"
    /\ lineIdx' = lineIdx + 1
    /\ UNCHANGED stdout_lines

\* the server has closed its stdout: the for loop ends
ReaderEof ==
    /\ readerPc = "reading"
    /\ lineIdx > Len(stdout_lines)
    /\ readerPc' = "eof"
    /\ UNCHANGED <<stdout_lines, lineIdx, reader_buf>>

ReaderNext ==
    \/ ReadLine
    \/ ReaderEof

----------------------------------------------------------------------------
\* Reader thread properties

\* C39: no line ends the reader thread while stdout is open, and every
\* response line is stored under its id once the thread has come to it,
\* whatever lines came before it.
C39_ReaderSkipsBadLines ==
    /\ readerPc # "dead"
    /\ \A i \in 1..Len(stdout_lines) :
           (IsResponse(stdout_lines[i]) /\ (i < lineIdx \/ readerPc # "reading"))
               => ParseLine(stdout_lines[i]).fields.id \in reader_buf

----------------------------------------------------------------------------
\* Project documentation (agents_md.py: read_project_docs)

MaxFiles == 2        \* most AGENTS.md files discovered between root and cwd
MaxBudget == 4       \* largest max_bytes explored

\* The bytes of a file: "x" and " " are ASCII bytes, "C3" "A9" are the two
\* bytes of one non-ASCII character
FileContents ==
    { <<>>, <<"x">>, <<"x", "x", "x">>, <<" ", " ", "x">>, <<" ">>,
      <<"C3", "A9", "x">> }

\* What path.read_bytes() does for a discovered file: it raises OSError or
\* returns the bytes
Files == {[readable |-> FALSE, raw |-> <<>>]}
             \cup {[readable |-> TRUE, raw |-> c] : c \in FileContents}

\* the lists discover_project_doc_paths returns, root first
FileLists == UNION {[1..n -> Files] : n \in 0..MaxFiles}
Budgets == (0 - 1)..MaxBudget

\* str(path) of the i-th discovered file
DocPath(i) == "/r" \o ToString(i) \o "/AGENTS.md"

\* lines 143-144: raw[:remaining] when len(raw) > remaining
Truncate(raw, budget) ==
    IF Len(raw) > budget THEN SubSeq(raw, 1, budget) ELSE raw

\* raw.decode("utf-8", errors="replace"): "E" stands for the character the
\* two bytes encode, "?" for U+FFFD
RECURSIVE Decode(_)
Decode(raw) ==
    IF raw = <<>> THEN ""
    ELSE IF raw[1] = "C3" /\ Len(raw) >= 2 /\ raw[2] = "A9"
    THEN "E" \o Decode(SubSeq(raw, 3, Len(raw)))
    ELSE IF raw[1] \in {"C3", "A9"}
    THEN "?" \o Decode(Tail(raw))
    ELSE raw[1] \o Decode(Tail(raw))

\* A loop that gives every file the whole budget
charge_Never(budget, raw) == budget

\* read_project_docs, line 151: remaining -= len(raw)
charge(budget, raw) == budget - Len(raw)

DocsInit ==
    /\ doc_files \in FileLists
    /\ max_bytes \in Budgets
    /\ docPc = "start"
    /\ docIdx = 0
    /\ remaining = 0
    /\ parts = <<>>
    /\ taken = [i \in 1..Len(doc_files) |-> 0]
    /\ docReads = <<>>
    /\ docResult = None

\* read_project_docs, lines 124-132: the two early returns and the set-up
DocsBegin ==
    /\ docPc = "start"
    /\ IF max_bytes <= 0 \/ doc_files = <<>>
       THEN /\ docPc' = "done"
            /\ docResult' = Some(None)
            /\ UNCHANGED <<docIdx, remaining>>
       ELSE /\ docPc' = "loop"
            /\ docIdx' = 1
            /\ remaining' = max_bytes
            /\ UNCHANGED docResult
    /\ UNCHANGED <<doc_files, max_bytes, parts, taken, docReads>>

\* read_project_docs, lines 134-151: one pass of the loop over the paths
DocsIterate ==
    /\ docPc = "loop"
    /\ docIdx <= Len(doc_files)
    /\ IF remaining <= 0
       THEN /\ docPc' = "join"
            /\ UNCHANGED <<docIdx, remaining, parts, taken, docReads>>
       ELSE LET f == doc_files[docIdx]
                raw == Truncate(f.raw, remaining)
                text == Strip(Decode(raw))
            IN  /\ docReads' = Append(docReads, [file |-> docIdx, remaining |-> remaining])
                /\ docIdx' = docIdx + 1
                /\ IF f.readable /\ text # ""
                   THEN /\ parts' = Append(parts, "Instructions from: "
                                               \o DocPath(docIdx) \o "\n" \o text)
                        /\ taken' = [taken EXCEPT ![docIdx] = Len(raw)]
                        /\ remaining' = charge(remaining, raw)
                   ELSE UNCHANGED <<parts, taken, remaining>>
                /\ UNCHANGED docPc
    /\ UNCHANGED <<doc_files, max_bytes, docResult>>

\* the loop has gone through all the paths
DocsLoopEnds ==
    /\ docPc = "loop"
    /\ docIdx > Len(doc_files)
    /\ docPc' = "join"
    /\ UNCHANGED <<doc_files, max_bytes, docIdx, remaining, parts, taken,
                   docReads, docResult>>

\* read_project_docs, lines 153-156
DocsReturn ==
    /\ docPc = "join"
    /\ docResult' = Some(IF parts = <<>> THEN None ELSE Some(Join(parts, "\n\n")))
    /\ docPc' = "done"
    /\ UNCHANGED <<doc_files, max_bytes, docIdx, remaining, parts, taken, docReads>>

DocsNext ==
    \/ DocsBegin
    \/ DocsIterate
    \/ DocsLoopEnds
    \/ DocsReturn

----------------------------------------------------------------------------
\* Project documentation properties

RECURSIVE SumTo(_, _)
SumTo(f, n) == IF n = 0 THEN 0 ELSE f[n] + SumTo(f, n - 1)

\* the files whose text is in the result
Included == {i \in 1..Len(doc_files) : taken[i] > 0}

----------------------------------------------------------------------------
\* Specifications

SessionIdle ==
    /\ system_prompt = "" /\ messages = <<>> /\ turn_count = 0
    /\ session_id = "s1" /\ child_session_ids = <<>> /\ children = <<>>
    /\ nAdds = 0 /\ rebuilt = FALSE /\ nCompacts = 0
    /\ lastOp = Op("init", "") /\ extra = 0

StoreIdle ==
    /\ parent_session_id = None /\ session_usage = UsageStats(0, 0, 0)
    /\ file = None /\ origin = None /\ loaded = None

PermIdle ==
    /\ permHeap = EmptyDict
    /\ base = PermissionSet("base", "ask", EmptyDict)
    /\ override = PermissionSet("override", "ask", EmptyDict)
    /\ merged = None
    /\ permLast = PermOp("init", "", "", "")
    /\ permOps = 0

ToolIdle ==
    /\ agent_name = "build" /\ auto_approve_tools = TRUE
    /\ has_callback = FALSE /\ mcp_tools = {} /\ events = {}
    /\ lastCall = NoCall /\ toolResult = NoToolResult /\ dispatched = 0

SpawnIdle ==
    /\ is_subagent = FALSE /\ parents = <<>>
    /\ mcp_servers = {} /\ agents = 1 /\ server_procs = {} /\ leftover = None

CallIdle ==
    /\ sendOutcome = [kind |-> "raise", text |-> ""]
    /\ callResult = None

UsageIdle ==
    /\ usage = UsageStats(0, 0, 0) /\ child_usage = None
    /\ usageLast = UsageOp("init", UsageStats(0, 0, 0), UsageStats(0, 0, 0))
    /\ usageOps = 0

LoopIdle ==
    /\ agentMessages = <<>> /\ max_turns = 0 /\ loopPc = "idle"
    /\ stream_turn = 0 /\ message = NoMessage /\ pending = <<>> /\ nextId = 1
    /\ lastYield = None /\ streamReturn = None /\ runResult = None
    /\ endedBy = "none" /\ mainCalls = 0 /\ started = <<>>
    /\ summaryCall = "none"

McpIdle ==
    /\ proc = [s \in Servers |-> "none"]
    /\ server_tools = [s \in Servers |-> <<>>]
    /\ tool_map = EmptyDict /\ mgrPc = "new" /\ mgrIdx = 0
    /\ sent = [s \in Servers |-> <<>>] /\ signals = [s \in Servers |-> <<>>]
    /\ mcpLast = McpOp(0, "init", 0, "none", "", None, None)
    /\ failedStart = {} /\ offered = [s \in Servers |-> <<>>]
    /\ handshake = [server |-> 0, how |-> "-"]
    /\ attempted = {} /\ callStates = {} /\ mcpOps = 0

NestIdle ==
    /\ sessionHeap = <<>> /\ childRef = 0 /\ nestPc = "parent"
    /\ forkSnap = None /\ taskOutcome = None /\ childTurns = 0 /\ nestOps = 0

ReaderIdle ==
    /\ stdout_lines = <<>> /\ lineIdx = 1 /\ readerPc = "reading"
    /\ reader_buf = {}

DocsIdle ==
    /\ doc_files = <<>> /\ max_bytes = 0 /\ docPc = "start" /\ docIdx = 0
    /\ remaining = 0 /\ parts = <<>> /\ taken = <<>> /\ docReads = <<>>
    /\ docResult = None

TableIdle ==
    /\ response_table = {} /\ interp = "none" /\ inTable = {}
    /\ tPc = [t \in Threads |-> "idle"] /\ tReq = 0 /\ rId = 0 /\ tStores = 0

\* The Session under its public operations
Init ==
    /\ SessionInit /\ StoreIdle /\ PermIdle /\ SendInit /\ ToolIdle
    /\ SpawnIdle /\ CallIdle /\ UsageIdle /\ LoopIdle /\ McpIdle
    /\ NestIdle /\ TableIdle /\ ReaderIdle /\ DocsIdle
Next ==
    SessionNext /\ UNCHANGED <<storeVars, permVars, sendVars, toolVars, spawnVars,
                                callVars, usageVars, loopVars, mcpVars, nestVars,
                                tableVars, readerVars, docsVars>>
Spec == Init /\ [][Next]_vars

\* A Session under its operations, record_usage, save and load
StoreSpecInit ==
    /\ StoreInit /\ PermIdle /\ SendInit /\ ToolIdle /\ SpawnIdle
    /\ CallIdle /\ UsageIdle /\ LoopIdle /\ McpIdle /\ NestIdle
    /\ TableIdle /\ ReaderIdle /\ DocsIdle
StoreSpecNext ==
    StoreNext /\ UNCHANGED <<permVars, sendVars, toolVars, spawnVars, callVars,
                              usageVars, loopVars, mcpVars, nestVars, tableVars,
                              readerVars, docsVars>>
StoreSpec == StoreSpecInit /\ [][StoreSpecNext]_vars

\* Permission sets under set_permission and merge
PermSpecInit ==
    /\ PermInit /\ SessionIdle /\ StoreIdle /\ SendInit /\ ToolIdle
    /\ SpawnIdle /\ CallIdle /\ UsageIdle /\ LoopIdle /\ McpIdle
    /\ NestIdle /\ TableIdle /\ ReaderIdle /\ DocsIdle
PermSpecNext ==
    PermNext /\ UNCHANGED <<sessVars, storeVars, sendVars, toolVars, spawnVars,
                             callVars, usageVars, loopVars, mcpVars, nestVars,
                             tableVars, readerVars, docsVars>>
PermSpec == PermSpecInit /\ [][PermSpecNext]_vars

\* One MCPServer: the caller thread in _send and the reader thread. The
\* caller thread is scheduled again and again; the server may stay silent.
SendSpecInit ==
    /\ SendInit /\ SessionIdle /\ StoreIdle /\ PermIdle /\ ToolIdle
    /\ SpawnIdle /\ CallIdle /\ UsageIdle /\ LoopIdle /\ McpIdle
    /\ NestIdle /\ TableIdle /\ ReaderIdle /\ DocsIdle
SendSpecNext ==
    SendNext /\ UNCHANGED <<sessVars, storeVars, permVars, toolVars, spawnVars,
                             callVars, usageVars, loopVars, mcpVars, nestVars,
                             tableVars, readerVars, docsVars>>
SendSpec ==
    /\ SendSpecInit /\ [][SendSpecNext]_vars
    /\ WF_sendVars(SendWhile) /\ WF_sendVars(SendCheck)
    /\ WF_sendVars(\E d \in SleepTimes : SendSleep(d))

\* One Agent dispatching tool calls through _execute_tool
ToolSpecInit ==
    /\ ToolInit /\ SessionIdle /\ StoreIdle /\ PermIdle /\ SendInit
    /\ SpawnIdle /\ CallIdle /\ UsageIdle /\ LoopIdle /\ McpIdle
    /\ NestIdle /\ TableIdle /\ ReaderIdle /\ DocsIdle
ToolSpecNext ==
    ToolNext /\ UNCHANGED <<sessVars, storeVars, permVars, sendVars, spawnVars,
                             callVars, usageVars, loopVars, mcpVars, nestVars,
                             tableVars, readerVars, docsVars>>
ToolSpec == ToolSpecInit /\ [][ToolSpecNext]_vars

\* A primary Agent, its tool calls and the sub-agents its task calls run
SpawnSpecInit ==
    /\ SpawnInit /\ SessionIdle /\ StoreIdle /\ PermIdle /\ SendInit
    /\ CallIdle /\ UsageIdle /\ LoopIdle /\ McpIdle /\ NestIdle
    /\ TableIdle /\ ReaderIdle /\ DocsIdle
SpawnSpecNext ==
    SpawnNext /\ UNCHANGED <<sessVars, storeVars, permVars, sendVars, callVars,
                              usageVars, loopVars, mcpVars, nestVars, tableVars,
                              readerVars, docsVars>>
SpawnSpec == SpawnSpecInit /\ [][SpawnSpecNext]_vars

\* MCPServer.call_tool applied to what _send gives it
CallSpecInit ==
    /\ CallInit /\ SessionIdle /\ StoreIdle /\ PermIdle /\ SendInit
    /\ ToolIdle /\ SpawnIdle /\ UsageIdle /\ LoopIdle /\ McpIdle
    /\ NestIdle /\ TableIdle /\ ReaderIdle /\ DocsIdle
CallSpecNext ==
    CallNext /\ UNCHANGED <<sessVars, storeVars, permVars, sendVars, toolVars,
                             spawnVars, usageVars, loopVars, mcpVars, nestVars,
                             tableVars, readerVars, docsVars>>
CallSpec == CallSpecInit /\ [][CallSpecNext]_vars

\* A parent Session's usage under record_usage and sub-agent runs
UsageSpecInit ==
    /\ UsageInit /\ SessionIdle /\ StoreIdle /\ PermIdle /\ SendInit
    /\ ToolIdle /\ SpawnIdle /\ CallIdle /\ LoopIdle /\ McpIdle /\ NestIdle
    /\ TableIdle /\ ReaderIdle /\ DocsIdle
UsageSpecNext ==
    UsageNext /\ UNCHANGED <<sessVars, storeVars, permVars, sendVars, toolVars,
                              spawnVars, callVars, loopVars, mcpVars, nestVars,
                              tableVars, readerVars, docsVars>>
UsageSpec == UsageSpecInit /\ [][UsageSpecNext]_vars

\* One Agent running submissions through stream() / run(); every backend
\* call and every tool call returns.
LoopSpecInit ==
    /\ LoopInit /\ SessionIdle /\ StoreIdle /\ PermIdle /\ SendInit
    /\ ToolIdle /\ SpawnIdle /\ CallIdle /\ UsageIdle /\ McpIdle
    /\ NestIdle /\ TableIdle /\ ReaderIdle /\ DocsIdle
LoopSpecNext ==
    LoopNext /\ UNCHANGED <<sessVars, storeVars, permVars, sendVars, toolVars,
                             spawnVars, callVars, usageVars, mcpVars, nestVars,
                             tableVars, readerVars, docsVars>>
LoopSpec ==
    /\ LoopSpecInit /\ [][LoopSpecNext]_vars
    /\ WF_loopVars(LoopStep)

\* A parent Agent whose model asks for the task tool, and the sub-agent
\* run inside that call
NestSpecInit ==
    /\ NestInit /\ SessionIdle /\ StoreIdle /\ PermIdle /\ SendInit
    /\ ToolIdle /\ SpawnIdle /\ CallIdle /\ UsageIdle /\ LoopIdle
    /\ McpIdle /\ TableIdle /\ ReaderIdle /\ DocsIdle
NestSpecNext ==
    NestNext /\ UNCHANGED <<sessVars, storeVars, permVars, sendVars, toolVars,
                             spawnVars, callVars, usageVars, loopVars, mcpVars,
                             tableVars, readerVars, docsVars>>
NestSpec == NestSpecInit /\ [][NestSpecNext]_vars

\* One MCPManager and its servers, from configuration to shutdown
McpSpecInit ==
    /\ McpInit /\ SessionIdle /\ StoreIdle /\ PermIdle /\ SendInit
    /\ ToolIdle /\ SpawnIdle /\ CallIdle /\ UsageIdle /\ LoopIdle
    /\ NestIdle /\ TableIdle /\ ReaderIdle /\ DocsIdle
McpSpecNext ==
    McpNext /\ UNCHANGED <<sessVars, storeVars, permVars, sendVars, toolVars,
                            spawnVars, callVars, usageVars, loopVars, nestVars,
                            tableVars, readerVars, docsVars>>
McpSpec == McpSpecInit /\ [][McpSpecNext]_vars

\* One MCPServer under start, call_tool and shutdown, and its process
ServerSpecInit ==
    /\ McpInit /\ SessionIdle /\ StoreIdle /\ PermIdle /\ SendInit
    /\ ToolIdle /\ SpawnIdle /\ CallIdle /\ UsageIdle /\ LoopIdle
    /\ NestIdle /\ TableIdle /\ ReaderIdle /\ DocsIdle
ServerSpecNext ==
    ServerNext /\ UNCHANGED <<sessVars, storeVars, permVars, sendVars, toolVars,
                               spawnVars, callVars, usageVars, loopVars, nestVars,
                               tableVars, readerVars, docsVars>>
ServerSpec == ServerSpecInit /\ [][ServerSpecNext]_vars

\* The reader thread and the caller thread of one MCPServer at the
\* correlation table
TableSpecInit ==
    /\ TableInit /\ SessionIdle /\ StoreIdle /\ PermIdle /\ SendInit
    /\ ToolIdle /\ SpawnIdle /\ CallIdle /\ UsageIdle /\ LoopIdle
    /\ McpIdle /\ NestIdle /\ ReaderIdle /\ DocsIdle
TableSpecNext ==
    TableNext /\ UNCHANGED <<sessVars, storeVars, permVars, sendVars, toolVars,
                              spawnVars, callVars, usageVars, loopVars, mcpVars,
                              nestVars, readerVars, docsVars>>
TableSpec == TableSpecInit /\ [][TableSpecNext]_vars

\* The reader thread of one MCPServer over the lines of its stdout
ReaderSpecInit ==
    /\ ReaderInit /\ SessionIdle /\ StoreIdle /\ PermIdle /\ SendInit
    /\ ToolIdle /\ SpawnIdle /\ CallIdle /\ UsageIdle /\ LoopIdle
    /\ McpIdle /\ NestIdle /\ TableIdle /\ DocsIdle
ReaderSpecNext ==
    ReaderNext /\ UNCHANGED <<sessVars, storeVars, permVars, sendVars, toolVars,
                               spawnVars, callVars, usageVars, loopVars, mcpVars,
                               nestVars, tableVars, docsVars>>
ReaderSpec == ReaderSpecInit /\ [][ReaderSpecNext]_vars

\* read_project_docs over the files discovered between the repository
\* root and the working directory
DocsSpecInit ==
    /\ DocsInit /\ SessionIdle /\ StoreIdle /\ PermIdle /\ SendInit
    /\ ToolIdle /\ SpawnIdle /\ CallIdle /\ UsageIdle /\ LoopIdle
    /\ McpIdle /\ NestIdle /\ TableIdle /\ ReaderIdle
DocsSpecNext ==
    DocsNext /\ UNCHANGED <<sessVars, storeVars, permVars, sendVars, toolVars,
                             spawnVars, callVars, usageVars, loopVars, mcpVars,
                             nestVars, tableVars, readerVars>>
DocsSpec == DocsSpecInit /\ [][DocsSpecNext]_vars

====
